---- MODULE Spec2Model ----
(***************************************************************************)
(* ArcSys: the multi-agent workflow of app/graph/builder.py.  One run of   *)
(* the compiled graph: planner -> researcher -> architect -> visualizer -> *)
(* critic -> (researcher | meta_critic) -> finalize -> END, every agent    *)
(* node being BaseAgent.execute of app/agents/base.py.                     *)
(*                                                                         *)
(* Texts are sequences of one-character strings.  critic_score is kept in  *)
(* tenths (7.0 is 70) and bias_score in hundredths (0.2 is 20).            *)
(***************************************************************************)
EXTENDS Integers, Sequences, FiniteSets, TLC

\* ------------------------------------------------------------------ bounds
\* The number of node invocations the graph runtime grants one run before
\* it stops the run with an error (workflow.invoke, default step budget).
MaxSupersteps == 12

\* The instants of the clock a RateLimiter is followed over, and the number
\* of calls made to it.
MaxClock == 5
MaxCalls == 5

\* ----------------------------------------------------- program constants
\* SecureLLMClient.validate_input: longest text accepted as a stage input.
MaxInputLen == 50000
\* CriticAgent.process_response: result.get("score", 5.0), and the default
\* of _extract_score_from_text, in tenths.
DefaultCriticScore == 50
\* CriticAgent._extract_score_from_text clamps into [0, 10] (tenths).
MaxCriticScore == 100
\* MetaCriticAgent.process_response clamps into [0, 1] (hundredths).
MaxBiasScore == 100

\* ------------------------------------------------------------------ texts
Whitespace == {" ", "\n"}

RECURSIVE LStrip(_)
LStrip(t) ==
    IF t # <<>> /\ Head(t) \in Whitespace THEN LStrip(Tail(t)) ELSE t

RECURSIVE RStrip(_)
RStrip(t) ==
    IF t # <<>> /\ t[Len(t)] \in Whitespace
    THEN RStrip(SubSeq(t, 1, Len(t) - 1))
    ELSE t

\* str.strip()
Strip(t) == RStrip(LStrip(t))

\* p is a prefix of s
IsPrefix(p, s) == Len(p) <= Len(s) /\ SubSeq(s, 1, Len(p)) = p

Max2(a, b) == IF a >= b THEN a ELSE b
Min2(a, b) == IF a <= b THEN a ELSE b

\* ------------------------------------------------------------ the agents
AgentNames ==
    {"planner", "researcher", "architect", "visualizer", "critic", "meta_critic"}

Nodes == AgentNames \cup {"finalize"}

\* _get_required_fields of each agent, in the order the code lists them.
PlannerRequiredFields == <<"user_query">>
ResearcherRequiredFields == <<"requirements">>
ArchitectRequiredFields == <<"research", "requirements">>
VisualizerRequiredFields == <<"architecture">>
CriticRequiredFields == <<"requirements", "research", "architecture">>
MetaCriticRequiredFields == <<"architecture", "requirements">>

\* self._get_required_fields() of the agent called name
RequiredFields(name) ==
    CASE name = "planner"     -> PlannerRequiredFields
      [] name = "researcher"  -> ResearcherRequiredFields
      [] name = "architect"   -> ArchitectRequiredFields
      [] name = "visualizer"  -> VisualizerRequiredFields
      [] name = "critic"      -> CriticRequiredFields
      [] name = "meta_critic" -> MetaCriticRequiredFields

\* SecureLLMClient.validate_input
ValidateInput(text) ==
    /\ text # <<>>
    /\ Strip(text) # <<>>
    /\ Len(text) <= MaxInputLen

\* The test of one required field in BaseAgent._validate_inputs: the
\* message of the AgentError it raises, or <<>> when the field passes.
FieldError(s, field) ==
    IF s[field] = <<>> \/ Strip(s[field]) = <<>>
    THEN <<"Required field '", field, "' is missing or empty">>
    ELSE IF ~ValidateInput(s[field])
         THEN <<"Invalid input in field '", field, "'">>
         ELSE <<>>

\* Variant of ValidateInputs: only the first required field is tested.
ValidateInputs_FirstOnly(name, s) == FieldError(s, RequiredFields(name)[1])

\* BaseAgent._validate_inputs: the message of the first AgentError raised
\* while walking the required fields in order, <<>> when none is raised.
ValidateInputs(name, s) ==
    LET req == RequiredFields(name)
        bad == {i \in 1..Len(req) : FieldError(s, req[i]) # <<>>}
    IN  IF bad = {} THEN <<>>
        ELSE FieldError(s, req[CHOOSE i \in bad : \A j \in bad : i <= j])

\* ------------------------------------------- what the model call returns
\* Raw texts the generation call hands to planner, researcher, architect
\* and visualizer: blank, plain, and padded with whitespace.
TextResponses == { <<" ">>, <<"a">>, <<" ", "b", "\n">> }

\* What the critic's raw text amounts to for process_response:
\*   kind "json"  the (unfenced) text is a JSON object; has_score/score_null
\*                say whether "score" is present / is null, has_feedback
\*                whether "feedback" is present;
\*   kind "text"  json.loads fails (or float() of the score raises
\*                ValueError); matched says whether one of the score
\*                patterns matches, number is the matched number (tenths).
CriticJson(hs, sn, n, hf) ==
    [kind |-> "json", has_score |-> hs, score_null |-> sn, score |-> n,
     has_feedback |-> hf, matched |-> FALSE, number |-> 0]

CriticText(m, n) ==
    [kind |-> "text", has_score |-> FALSE, score_null |-> FALSE, score |-> 0,
     has_feedback |-> FALSE, matched |-> m, number |-> n]

JsonScores == {0, 20, 70, 120}

CriticResponses ==
    {CriticJson(TRUE, FALSE, n, TRUE) : n \in JsonScores}
    \cup {CriticJson(FALSE, FALSE, 0, FALSE), CriticJson(TRUE, TRUE, 0, TRUE)}
    \cup {CriticText(TRUE, 60), CriticText(FALSE, 0)}

\* What the meta-critic's raw text amounts to: whether it holds a number
\* (hundredths) and how many keywords of each tier occur in it.
MetaText(hn, n, ma, mo, mi) ==
    [has_number |-> hn, number |-> n, major |-> ma, moderate |-> mo, minor |-> mi]

MetaResponses ==
    { MetaText(TRUE, 20, 0, 0, 1), MetaText(TRUE, 150, 0, 0, 0),
      MetaText(TRUE, 0, 0, 0, 0), MetaText(FALSE, 0, 5, 1, 1),
      MetaText(FALSE, 0, 2, 0, 0), MetaText(FALSE, 0, 0, 0, 0) }

ResponsesOf(name) ==
    CASE name = "critic"      -> CriticResponses
      [] name = "meta_critic" -> MetaResponses
      [] OTHER                -> TextResponses

\* The outcomes of self.llm_client.client.invoke(messages): it raises, or
\* it returns a response with some content.
LLMOutcomes(name) ==
    {[raised |-> TRUE, content |-> <<>>]}
    \cup {[raised |-> FALSE, content |-> c] : c \in ResponsesOf(name)}

\* ------------------------------------------------------ process_response
Returned(upd) == [raised |-> FALSE, update |-> upd]
Raised == [raised |-> TRUE, update |-> <<>>]

\* CriticAgent._extract_score_from_text
ExtractScoreFromText(c) ==
    IF c.matched THEN Min2(Max2(c.number, 0), MaxCriticScore)
    ELSE DefaultCriticScore

\* CriticAgent.process_response.  float(None) raises TypeError, which the
\* method's own except clause does not catch.
CriticProcessResponse(c) ==
    IF c.kind = "json"
    THEN IF c.has_score /\ c.score_null
         THEN Raised
         ELSE Returned(
                [critic_score |-> IF c.has_score THEN c.score
                                  ELSE DefaultCriticScore,
                 critic_feedback |-> IF c.has_feedback THEN <<"solid">>
                                     ELSE <<"No feedback provided">>])
    ELSE Returned(
           [critic_score |-> ExtractScoreFromText(c),
            critic_feedback |-> <<"Parsing failed. Raw response: ", "raw">>])

\* MetaCriticAgent._analyze_text_for_risk (hundredths)
AnalyzeTextForRisk(c) ==
    IF c.major > 0 THEN Min2(70 + c.major * 10, 100)
    ELSE IF c.moderate > 0 THEN Min2(30 + c.moderate * 10, 60)
    ELSE IF c.minor > 0 THEN Min2(10 + c.minor * 5, 30)
    ELSE 20

\* Variant of MetaProcessResponse: the number found is not clamped.
MetaProcessResponse_NoClamp(c) ==
    Returned([bias_score |-> IF c.has_number THEN c.number
                             ELSE AnalyzeTextForRisk(c)])

\* MetaCriticAgent.process_response
MetaProcessResponse(c) ==
    Returned([bias_score |-> IF c.has_number
                             THEN Min2(Max2(c.number, 0), MaxBiasScore)
                             ELSE AnalyzeTextForRisk(c)])

\* process_response of the four text agents
PlannerProcessResponse(c) == Returned([requirements |-> Strip(c)])
ResearcherProcessResponse(c) == Returned([research |-> Strip(c)])
ArchitectProcessResponse(c) == Returned([architecture |-> Strip(c)])
\* Variant of VisualizerProcessResponse: the text lands in architecture.
VisualizerProcessResponse_WrongField(c) == Returned([architecture |-> Strip(c)])

VisualizerProcessResponse(c) == Returned([visualization |-> Strip(c)])

\* self.process_response(response_content, state) of the agent called name
ProcessResponse(name, content) ==
    CASE name = "planner"     -> PlannerProcessResponse(content)
      [] name = "researcher"  -> ResearcherProcessResponse(content)
      [] name = "architect"   -> ArchitectProcessResponse(content)
      [] name = "visualizer"  -> VisualizerProcessResponse(content)
      [] name = "critic"      -> CriticProcessResponse(content)
      [] name = "meta_critic" -> MetaProcessResponse(content)

\* Variant of FailureUpdate: the except branch counts the invocation.
FailureUpdate_CountsFailure(name, s, msg) ==
    [error_messages |-> Append(s.error_messages, <<name, " failed: ">> \o msg),
     iteration_count |-> s.iteration_count + 1]

\* --------------------------------------------------- BaseAgent.execute
\* Variant of FailureUpdate: the except branch also resets the score.
FailureUpdate_ResetsScore(name, s, msg) ==
    [error_messages |-> Append(s.error_messages, <<name, " failed: ">> \o msg),
     iteration_count |-> s.iteration_count,
     critic_score |-> 0]

\* Variant of FailureUpdate: the except branch returns only the new message.
FailureUpdate_DropsLog(name, s, msg) ==
    [error_messages |-> << <<name, " failed: ">> \o msg >>,
     iteration_count |-> s.iteration_count]

\* Variant of FailureUpdate: the new message is put in front of the log.
FailureUpdate_Prepends(name, s, msg) ==
    [error_messages |-> << <<name, " failed: ">> \o msg >> \o s.error_messages,
     iteration_count |-> s.iteration_count]

\* Variant of FailureUpdate: the except branch restarts the counter.
FailureUpdate_ResetsCount(name, s, msg) ==
    [error_messages |-> Append(s.error_messages, <<name, " failed: ">> \o msg),
     iteration_count |-> 0]

\* The except branch: the update returned when anything raised.
FailureUpdate(name, s, msg) ==
    [error_messages |-> Append(s.error_messages, <<name, " failed: ">> \o msg),
     iteration_count |-> s.iteration_count]

\* Variant of SuccessUpdate: the counter is copied, not incremented.
SuccessUpdate_NoIncrement(s, result) ==
    [iteration_count |-> s.iteration_count] @@ result

\* The try branch's last statements: result.update({"iteration_count": ...}).
SuccessUpdate(s, result) ==
    [iteration_count |-> s.iteration_count + 1] @@ result

\* BaseAgent.execute: the partial update the node returns, given the
\* outcome of the model call (which is not made when validation raises).
Execute(name, s, outcome) ==
    LET err == ValidateInputs(name, s) IN
    IF err # <<>> THEN FailureUpdate(name, s, err)
    ELSE IF outcome.raised THEN FailureUpdate(name, s, <<"LLM call failed">>)
    ELSE LET r == ProcessResponse(name, outcome.content) IN
         IF r.raised
         THEN FailureUpdate(name, s, <<"response could not be processed">>)
         ELSE SuccessUpdate(s, r.update)

\* Whether an update is the one of the except branch.
IsFailure(upd) == "error_messages" \in DOMAIN upd

\* The graph runtime writes a node's partial update into the state: keys
\* present replace the field, keys absent leave it.
Merge(s, upd) ==
    [k \in DOMAIN s |-> IF k \in DOMAIN upd THEN upd[k] ELSE s[k]]

\* Variant of ShouldRetry: the ceiling is reached one count early.
ShouldRetry_CeilingOneEarly(s, cfg) ==
    IF s.iteration_count + 1 >= cfg.max_retries THEN "proceed"
    ELSE IF s.critic_score < cfg.critic_threshold THEN "retry"
    ELSE "proceed"

\* Variant of ShouldRetry: the ceiling is twice max_retries.
ShouldRetry_DoubleCeiling(s, cfg) ==
    IF s.iteration_count >= 2 * cfg.max_retries THEN "proceed"
    ELSE IF s.critic_score < cfg.critic_threshold THEN "retry"
    ELSE "proceed"

\* Variant of ShouldRetry: a score equal to the threshold retries.
ShouldRetry_ScoreInclusive(s, cfg) ==
    IF s.iteration_count >= cfg.max_retries THEN "proceed"
    ELSE IF s.critic_score <= cfg.critic_threshold THEN "retry"
    ELSE "proceed"

\* Variant of ShouldRetry: the ceiling is tested with > instead of >=.
ShouldRetry_CeilingExclusive(s, cfg) ==
    IF s.iteration_count > cfg.max_retries THEN "proceed"
    ELSE IF s.critic_score < cfg.critic_threshold THEN "retry"
    ELSE "proceed"

\* Variant of ShouldRetry: the score is not looked at under the ceiling.
ShouldRetry_NoScoreCheck(s, cfg) ==
    IF s.iteration_count >= cfg.max_retries THEN "proceed"
    ELSE "retry"

\* Variant of ShouldRetry: the iteration limit is not tested.
ShouldRetry_NoCeiling(s, cfg) ==
    IF s.critic_score < cfg.critic_threshold THEN "retry" ELSE "proceed"

\* ----------------------------------------- WorkflowBuilder._should_retry
ShouldRetry(s, cfg) ==
    IF s.iteration_count >= cfg.max_retries THEN "proceed"
    ELSE IF s.critic_score < cfg.critic_threshold THEN "retry"
    ELSE "proceed"

\* Variant of NextNode: the retry edge leads back to planner.
NextNode_RetryAtPlanner(node, s, cfg) ==
    CASE node = "planner"     -> "researcher"
      [] node = "researcher"  -> "architect"
      [] node = "architect"   -> "visualizer"
      [] node = "visualizer"  -> "critic"
      [] node = "critic"      -> IF ShouldRetry(s, cfg) = "retry"
                                 THEN "planner" ELSE "meta_critic"
      [] node = "meta_critic" -> "finalize"
      [] node = "finalize"    -> "END"

\* Variant of NextNode: meta_critic is wired straight to END.
NextNode_SkipFinalize(node, s, cfg) ==
    CASE node = "planner"     -> "researcher"
      [] node = "researcher"  -> "architect"
      [] node = "architect"   -> "visualizer"
      [] node = "visualizer"  -> "critic"
      [] node = "critic"      -> IF s.iteration_count < cfg.max_retries
                                    /\ s.critic_score < cfg.critic_threshold
                                 THEN "researcher" ELSE "meta_critic"
      [] node = "meta_critic" -> "END"
      [] node = "finalize"    -> "END"

\* build_graph: the node that follows each node; after critic the mapping
\* {"retry": "researcher", "proceed": "meta_critic"} of the conditional edge.
NextNode(node, s, cfg) ==
    CASE node = "planner"     -> "researcher"
      [] node = "researcher"  -> "architect"
      [] node = "architect"   -> "visualizer"
      [] node = "visualizer"  -> "critic"
      [] node = "critic"      -> IF ShouldRetry(s, cfg) = "retry"
                                 THEN "researcher" ELSE "meta_critic"
      [] node = "meta_critic" -> "finalize"
      [] node = "finalize"    -> "END"

\* -------------------------------------- WorkflowBuilder._finalize_output
Delimiter == "\n\n---\n\n"

RECURSIVE Join(_, _)
\* delim.join(parts), each part a text
Join(parts, delim) ==
    IF parts = <<>> THEN <<>>
    ELSE IF Len(parts) = 1 THEN parts[1]
    ELSE parts[1] \o <<delim>> \o Join(Tail(parts), delim)

Section(heading, text) == <<heading>> \o text

\* Variant of RenderSections: research is rendered before requirements.
RenderSections_ResearchFirst(s) ==
    LET eval_section ==
            (IF s.critic_score # 0
             THEN << <<"**Score:** ", ToString(s.critic_score), "/10">> >>
             ELSE <<>>)
            \o (IF s.critic_feedback # <<>>
                THEN << <<"**Feedback:** ">> \o s.critic_feedback >> ELSE <<>>)
            \o (IF s.bias_score # 0
                THEN << <<"**Bias Risk:** ", ToString(s.bias_score)>> >>
                ELSE <<>>)
    IN  (IF s.research # <<>>
         THEN <<Section("# Research Notes\n", s.research)>> ELSE <<>>)
        \o (IF s.requirements # <<>>
            THEN <<Section("# Requirements\n", s.requirements)>> ELSE <<>>)
        \o (IF s.architecture # <<>>
            THEN <<Section("# Architecture Design\n", s.architecture)>> ELSE <<>>)
        \o (IF s.visualization # <<>>
            THEN <<Section("# Visualization\n", s.visualization)>> ELSE <<>>)
        \o (IF eval_section # <<>>
            THEN <<Section("# Evaluation\n", Join(eval_section, "\n"))>>
            ELSE <<>>)

\* The sections list of the try branch.
RenderSections(s) ==
    LET eval_section ==
            (IF s.critic_score # 0
             THEN << <<"**Score:** ", ToString(s.critic_score), "/10">> >>
             ELSE <<>>)
            \o (IF s.critic_feedback # <<>>
                THEN << <<"**Feedback:** ">> \o s.critic_feedback >> ELSE <<>>)
            \o (IF s.bias_score # 0
                THEN << <<"**Bias Risk:** ", ToString(s.bias_score)>> >>
                ELSE <<>>)
    IN  (IF s.requirements # <<>>
         THEN <<Section("# Requirements\n", s.requirements)>> ELSE <<>>)
        \o (IF s.research # <<>>
            THEN <<Section("# Research Notes\n", s.research)>> ELSE <<>>)
        \o (IF s.architecture # <<>>
            THEN <<Section("# Architecture Design\n", s.architecture)>> ELSE <<>>)
        \o (IF s.visualization # <<>>
            THEN <<Section("# Visualization\n", s.visualization)>> ELSE <<>>)
        \o (IF eval_section # <<>>
            THEN <<Section("# Evaluation\n", Join(eval_section, "\n"))>>
            ELSE <<>>)

\* Variant of FinalizeOutput: the rendering is added to what
\* final_markdown already holds.
FinalizeOutput_Accumulates(s, throws) ==
    IF throws
    THEN [final_markdown |-> <<"Error generating final output">>,
          error_messages |-> Append(s.error_messages, <<"render error">>)]
    ELSE [final_markdown |-> s.final_markdown \o Join(RenderSections(s), Delimiter)]

\* Variant of FinalizeOutput: the except branch returns the log only.
FinalizeOutput_NoFallback(s, throws) ==
    IF throws
    THEN [error_messages |-> Append(s.error_messages, <<"render error">>)]
    ELSE [final_markdown |-> Join(RenderSections(s), Delimiter)]

\* _finalize_output: the update of the try branch, or of the except branch
\* when rendering throws.
FinalizeOutput(s, throws) ==
    IF throws
    THEN [final_markdown |-> <<"Error generating final output">>,
          error_messages |-> Append(s.error_messages, <<"render error">>)]
    ELSE [final_markdown |-> Join(RenderSections(s), Delimiter)]

\* ------------------------------------------------------- the state machine
VARIABLES
    pc,          \* the node to run next, "END" once the graph has finished,
                 \* "aborted" when workflow.invoke raised
    state,       \* the LabState of the run
    settings,    \* get_settings(): max_retries and critic_threshold
    steps,       \* node invocations the graph runtime has made in this run
    trace,       \* history: one record per node invocation, in order
    invocations, \* history: agent node invocations attempted so far
    retries,     \* history: times the retry edge critic -> researcher was taken
    runs,        \* concurrent runs: each run's node, LabState, step count and
                 \* whether its generation call is in flight
    solo,        \* history: each concurrent run as it goes when run alone
    gate,        \* SecureLLMClient._rate_limiter: its size and free permits
    gated,       \* the callers of SecureLLMClient.invoke: where each one is
    request,     \* the query posted to /analyze, as it was sent
    response,    \* what the request boundary has answered, if it has
    limiter      \* a RateLimiter: its parameters, its requests, the clock
                 \* it reads, and the history of the calls made to it

vars == <<pc, state, settings, steps, trace, invocations, retries,
          runs, solo, gate, gated, request, response, limiter>>

\* The variables of the request boundary.
boundary == <<request, response, limiter>>

NoResponse == [status |-> 0]

\* No RateLimiter has been constructed (the routes construct none).
NoLimiter ==
    [now |-> 0, max_requests |-> 0, window_seconds |-> 0,
     requests |-> <<>>, alone |-> <<>>, calls |-> <<>>]

\* workflow.invoke called on a state directly, not through the route.
Direct ==
    /\ request = <<>>
    /\ response = NoResponse
    /\ limiter = NoLimiter

\* The variables of concurrent runs and of the gate.
concurrent == <<runs, solo, gate, gated>>

\* One run at a time: no other run, no caller of SecureLLMClient.invoke.
SingleRun ==
    /\ runs = <<>>
    /\ solo = <<>>
    /\ gate = [size |-> 1, value |-> 1]
    /\ gated = <<>>

\* Settings.max_retries (ge=1, le=10, default 3) and critic_threshold
\* (ge=0.0, le=10.0, default 7.0, here in tenths): the values modelled.
MaxRetriesValues == {1, 3, 6}
ThresholdValues == {0, 70}

\* The queries the request boundary lets through: non-blank, stripped.
Queries == { <<"q">> }

\* initial_state of analyze_system (and of run_cli.main)
InitialState(query) ==
    [user_query |-> query, requirements |-> <<>>, research |-> <<>>,
     architecture |-> <<>>, visualization |-> <<>>, critic_score |-> 0,
     critic_feedback |-> <<>>, bias_score |-> 0, final_markdown |-> <<>>,
     iteration_count |-> 0, error_messages |-> <<>>]

Init ==
    /\ pc = "planner"
    /\ \E q \in Queries : state = InitialState(q)
    /\ settings \in [max_retries : MaxRetriesValues,
                     critic_threshold : ThresholdValues]
    /\ steps = 0
    /\ trace = <<>>
    /\ invocations = 0
    /\ retries = 0
    /\ SingleRun
    /\ Direct

\* The history record of one node invocation: the node, whether it took its
\* except branch, whether the generation call was made and whether that call
\* raised, and iteration_count and critic_score as the node left them.
Visit(name, upd, called, call_raised, new) ==
    [node |-> name, failed |-> IsFailure(upd), called |-> called,
     call_raised |-> call_raised, count |-> new.iteration_count,
     score |-> new.critic_score]

\* One agent node: execute runs, the runtime merges its update and follows
\* the outgoing edge (for critic, the conditional edge of _should_retry).
AgentStep(name) ==
    /\ pc = name
    /\ steps < MaxSupersteps
    /\ \E outcome \in LLMOutcomes(name) :
         LET upd == Execute(name, state, outcome)
             new == Merge(state, upd)
             nxt == NextNode(name, new, settings)
             called == ValidateInputs(name, state) = <<>>
         IN  /\ state' = new
             /\ pc' = nxt
             /\ retries' = IF name = "critic" /\ nxt = "researcher"
                           THEN retries + 1 ELSE retries
             /\ trace' = Append(trace,
                    Visit(name, upd, called, called /\ outcome.raised, new))
    /\ steps' = steps + 1
    /\ invocations' = invocations + 1
    /\ UNCHANGED <<settings, concurrent, boundary>>

Planner == AgentStep("planner")
Researcher == AgentStep("researcher")
Architect == AgentStep("architect")
Visualizer == AgentStep("visualizer")
Critic == AgentStep("critic")
MetaCritic == AgentStep("meta_critic")

\* The finalize node, rendering or (throws) taking its except branch.
FinalizeStep(throws) ==
    /\ pc = "finalize"
    /\ steps < MaxSupersteps
    /\ LET upd == FinalizeOutput(state, throws)
           new == Merge(state, upd)
       IN  /\ state' = new
           /\ trace' = Append(trace, Visit("finalize", upd, FALSE, FALSE, new))
    /\ pc' = NextNode("finalize", state, settings)
    /\ steps' = steps + 1
    /\ UNCHANGED <<settings, invocations, retries, concurrent, boundary>>

Finalize == FinalizeStep(FALSE)

\* Rendering throws inside the try block of _finalize_output.
FinalizeRenderError == FinalizeStep(TRUE)

\* The run has used up its step budget without reaching END: the graph
\* runtime raises out of workflow.invoke and the caller's except clause
\* ends the request; no further node runs.
RecursionAbort ==
    /\ pc \in Nodes
    /\ steps >= MaxSupersteps
    /\ pc' = "aborted"
    /\ UNCHANGED <<state, settings, steps, trace, invocations, retries,
                   concurrent, boundary>>

Next ==
    \/ Planner
    \/ Researcher
    \/ Architect
    \/ Visualizer
    \/ Critic
    \/ MetaCritic
    \/ Finalize
    \/ RecursionAbort

Spec == Init /\ [][Next]_vars

\* The defaults of Settings: max_retries = 3, critic_threshold = 7.0.
DefaultSettings == [max_retries |-> 3, critic_threshold |-> 70]

InitDefault == Init /\ settings = DefaultSettings

\* A run under the default settings; the graph runtime keeps running nodes
\* until END or the abort.
FairSpec == InitDefault /\ [][Next]_vars /\ WF_vars(Next)

\* The same run, with rendering allowed to throw in the finalizer.
NextRenderFault == Next \/ FinalizeRenderError

SpecRenderFault == Init /\ [][NextRenderFault]_vars

\* A run under the default settings.
SpecDefault == InitDefault /\ [][Next]_vars

\* The values of max_retries around the count of a first pass without
\* failure (ge=1, le=10).
CeilingValues == {1, 3, 4, 5, 6}

\* A run under the default threshold and each of those ceilings.
InitCeiling ==
    /\ pc = "planner"
    /\ \E q \in Queries : state = InitialState(q)
    /\ settings \in [max_retries : CeilingValues,
                     critic_threshold : {DefaultSettings.critic_threshold}]
    /\ steps = 0
    /\ trace = <<>>
    /\ invocations = 0
    /\ retries = 0
    /\ SingleRun
    /\ Direct

SpecCeiling == InitCeiling /\ [][Next]_vars

\* ------------------------------------------- one direct call of execute
\* agent.execute(state) called once on a hand-built state, as the debug
\* script does: the fields can then hold any text, blank and over-long
\* ones included.
LongText == [i \in 1..(MaxInputLen + 1) |-> "x"]

UnitStates ==
    {[InitialState(q) EXCEPT !.requirements = rq, !.research = rs,
                             !.architecture = ar] :
        q \in {<<"q">>, LongText},
        rq \in {<<>>, <<" ">>, <<"a">>, LongText},
        rs \in {<<>>, <<"\n", " ">>, <<"a">>},
        ar \in {<<>>, <<"a">>}}

InitUnit ==
    /\ pc \in AgentNames
    /\ state \in UnitStates
    /\ settings = DefaultSettings
    /\ steps = 0
    /\ trace = <<>>
    /\ invocations = 0
    /\ retries = 0
    /\ SingleRun
    /\ Direct

UnitExecute ==
    /\ pc \in AgentNames
    /\ trace = <<>>
    /\ \E outcome \in LLMOutcomes(pc) :
         LET upd == Execute(pc, state, outcome)
             new == Merge(state, upd)
             called == ValidateInputs(pc, state) = <<>>
         IN  /\ state' = new
             /\ trace' = <<Visit(pc, upd, called, called /\ outcome.raised, new)>>
    /\ pc' = "END"
    /\ steps' = steps + 1
    /\ invocations' = invocations + 1
    /\ UNCHANGED <<settings, retries, concurrent, boundary>>

SpecUnit == InitUnit /\ [][UnitExecute]_vars

\* ------------------------------------------- the finalizer called directly
\* _finalize_output applied to a state, and again to the state it left.
RenderStates ==
    {[InitialState(<<"q">>) EXCEPT
         !.requirements = rq, !.research = rs, !.architecture = ar,
         !.visualization = vi, !.critic_score = cs, !.critic_feedback = fb,
         !.bias_score = bs, !.iteration_count = 1] :
        rq \in {<<>>, <<"a">>}, rs \in {<<>>, <<"b">>},
        ar \in {<<>>, <<"a">>}, vi \in {<<>>, <<"b">>},
        cs \in {0, 70}, fb \in {<<>>, <<"solid">>}, bs \in {0, 20}}

InitRender ==
    /\ pc = "finalize"
    /\ state \in RenderStates
    /\ settings = DefaultSettings
    /\ steps = 0
    /\ trace = <<>>
    /\ invocations = 0
    /\ retries = 0
    /\ SingleRun
    /\ Direct

RenderAgain ==
    /\ pc = "finalize"
    /\ steps < 2
    /\ LET upd == FinalizeOutput(state, FALSE)
           new == Merge(state, upd)
       IN  /\ state' = new
           /\ trace' = Append(trace, Visit("finalize", upd, FALSE, FALSE, new))
    /\ steps' = steps + 1
    /\ UNCHANGED <<pc, settings, invocations, retries, concurrent, boundary>>

SpecRender == InitRender /\ [][RenderAgain]_vars

\* --------------------------------- the critic's fallback on a raw text
\* critic_feedback keeps response[:500]
FeedbackLimit == 500

Digits == {"0", "1", "2", "3", "4", "5", "6", "7", "8", "9"}

DigitValue(ch) ==
    CASE ch = "0" -> 0 [] ch = "1" -> 1 [] ch = "2" -> 2 [] ch = "3" -> 3
      [] ch = "4" -> 4 [] ch = "5" -> 5 [] ch = "6" -> 6 [] ch = "7" -> 7
      [] ch = "8" -> 8 [] ch = "9" -> 9

\* str.lower(), on the letters of the alphabet
LowerChar(ch) ==
    CASE ch = "A" -> "a" [] ch = "B" -> "b" [] ch = "C" -> "c"
      [] ch = "D" -> "d" [] ch = "E" -> "e" [] ch = "F" -> "f"
      [] ch = "G" -> "g" [] ch = "H" -> "h" [] ch = "I" -> "i"
      [] ch = "J" -> "j" [] ch = "K" -> "k" [] ch = "L" -> "l"
      [] ch = "M" -> "m" [] ch = "N" -> "n" [] ch = "O" -> "o"
      [] ch = "P" -> "p" [] ch = "Q" -> "q" [] ch = "R" -> "r"
      [] ch = "S" -> "s" [] ch = "T" -> "t" [] ch = "U" -> "u"
      [] ch = "V" -> "v" [] ch = "W" -> "w" [] ch = "X" -> "x"
      [] ch = "Y" -> "y" [] ch = "Z" -> "z"
      [] OTHER -> ch

Lower(text) == [i \in 1..Len(text) |-> LowerChar(text[i])]

\* The literal word stands in text at position i.
MatchesAt(word, text, i) ==
    /\ i >= 1
    /\ i + Len(word) - 1 <= Len(text)
    /\ SubSeq(text, i, i + Len(word) - 1) = word

\* "word in text"
Contains(text, word) ==
    \E i \in 1..(Len(text) - Len(word) + 1) : MatchesAt(word, text, i)

RECURSIVE RunEnd(_, _, _)
\* The first position at or after i whose character is not in class: where
\* a greedy [class]* that starts at i stops.
RunEnd(text, i, class) ==
    IF i <= Len(text) /\ text[i] \in class
    THEN RunEnd(text, i + 1, class) ELSE i

\* The last position of the longest \d+(?:\.\d+)? that starts at the
\* digit at i.
NumberEnd(text, i) ==
    LET e == RunEnd(text, i, Digits) - 1 IN
    IF e + 2 <= Len(text) /\ text[e + 1] = "." /\ text[e + 2] \in Digits
    THEN RunEnd(text, e + 2, Digits) - 1 ELSE e

RECURSIVE IntValue(_, _, _)
\* int() of the digits text[i..e]
IntValue(text, i, e) ==
    IF e < i THEN 0
    ELSE IntValue(text, i, e - 1) * 10 + DigitValue(text[e])

\* float() of the literal text[i..g], in tenths (the modelled texts carry
\* at most one decimal).
NumberValue(text, i, g) ==
    LET e == RunEnd(text, i, Digits) - 1 IN
    IF e >= g THEN IntValue(text, i, g) * 10
    ELSE IntValue(text, i, e) * 10 + DigitValue(text[e + 2])

\* re.search(r"word[:\s]*(\d+(?:\.\d+)?)", text): the leftmost place where
\* the word, any run of colons and whitespace, and a number follow each
\* other; the group is the longest number there.
KeywordSearch(word, text) ==
    LET at(i) == RunEnd(text, i + Len(word), {":"} \cup Whitespace)
        hits == {i \in 1..Len(text) :
                    /\ MatchesAt(word, text, i)
                    /\ at(i) <= Len(text)
                    /\ text[at(i)] \in Digits}
    IN  IF hits = {} THEN CriticText(FALSE, 0)
        ELSE LET i == CHOOSE h \in hits : \A o \in hits : h <= o
             IN  CriticText(TRUE, NumberValue(text, at(i), NumberEnd(text, at(i))))

\* The ends g of a group (\d+(?:\.\d+)?) starting at i after which
\* [/\s]*10 matches.
TenGroupEnds(text, i) ==
    {g \in i..NumberEnd(text, i) :
        /\ text[g] \in Digits
        /\ MatchesAt(<<"1", "0">>, text, RunEnd(text, g + 1, {"/"} \cup Whitespace))}

\* re.search(r"(\d+(?:\.\d+)?)[/\s]*10", text): the leftmost digit from
\* which the pattern matches; the group is the longest one that lets the
\* rest match.
TenSearch(text) ==
    LET hits == {i \in 1..Len(text) :
                    text[i] \in Digits /\ TenGroupEnds(text, i) # {}}
    IN  IF hits = {} THEN CriticText(FALSE, 0)
        ELSE LET i == CHOOSE h \in hits : \A o \in hits : h <= o
                 g == CHOOSE e \in TenGroupEnds(text, i) :
                          \A o \in TenGroupEnds(text, i) : e >= o
             IN  CriticText(TRUE, NumberValue(text, i, g))

\* Variant of ScanScore: the N/10 pattern is tried first.
ScanScore_TenFirst(text) ==
    LET p1 == KeywordSearch(<<"s", "c", "o", "r", "e">>, text)
        p2 == TenSearch(text)
        p3 == KeywordSearch(<<"r", "a", "t", "i", "n", "g">>, text)
    IN  IF p2.matched THEN p2 ELSE IF p1.matched THEN p1 ELSE p3

\* The loop of _extract_score_from_text over score_patterns: what the
\* first pattern that matches captured.
ScanScore(text) ==
    LET p1 == KeywordSearch(<<"s", "c", "o", "r", "e">>, text)
        p2 == TenSearch(text)
        p3 == KeywordSearch(<<"r", "a", "t", "i", "n", "g">>, text)
    IN  IF p1.matched THEN p1 ELSE IF p2.matched THEN p2 ELSE p3

\* json.loads accepts the text as a number: digits, or digits.digits.
IsJsonNumber(text) ==
    /\ text # <<>>
    /\ text[1] \in Digits
    /\ NumberEnd(text, 1) = Len(text)

\* The backquote as one character of a text (a string of this language
\* cannot hold the character itself).
Backquote == "backquote"

\* The fence of a code block, bare and with the json tag.
Fence == <<Backquote, Backquote, Backquote>>
JsonFence == Fence \o <<"j", "s", "o", "n">>

StartsWith(text, p) == MatchesAt(p, text, 1)
EndsWith(text, p) == MatchesAt(p, text, Len(text) - Len(p) + 1)

\* The two removals process_response makes on the stripped response: a
\* leading json fence, then a trailing fence.
Unfence(text) ==
    LET a == IF StartsWith(text, JsonFence)
             THEN SubSeq(text, Len(JsonFence) + 1, Len(text)) ELSE text
    IN  IF EndsWith(a, Fence) THEN SubSeq(a, 1, Len(a) - Len(Fence)) ELSE a

\* The parts of a JSON object with a numeric score and a string feedback.
ObjectOpen == <<"{", "\"", "s", "c", "o", "r", "e", "\"", ":", " ">>
ObjectMiddle == <<",", " ", "\"", "f", "e", "e", "d", "b", "a", "c", "k", "\"", ":", " ", "\"">>
ObjectClose == <<"\"", "}">>

\* json.loads on such an object: whether the text is one, the number
\* after "score" (tenths) and the string after "feedback".
JsonObjectParse(text) ==
    LET ns == Len(ObjectOpen) + 1
        ne == NumberEnd(text, ns)
        fs == ne + 1 + Len(ObjectMiddle)
        fe == Len(text) - Len(ObjectClose)
        ok == /\ StartsWith(text, ObjectOpen)
              /\ ns <= Len(text)
              /\ text[ns] \in Digits
              /\ MatchesAt(ObjectMiddle, text, ne + 1)
              /\ fe >= fs - 1
              /\ EndsWith(text, ObjectClose)
              /\ \A k \in fs..fe : text[k] \notin {"\"", "\\", "\n"}
    IN  IF ok THEN [object |-> TRUE, score |-> NumberValue(text, ns, ne),
                    feedback |-> SubSeq(text, fs, fe)]
        ELSE [object |-> FALSE, score |-> 0, feedback |-> <<>>]

\* process_response on a raw text: a JSON object is read; a bare number
\* is valid JSON without .get (AttributeError, not caught here); any other
\* text takes the except branch.
CriticProcessRaw(raw) ==
    LET clean == Strip(Unfence(Strip(raw)))
        parsed == JsonObjectParse(clean)
    IN
    IF parsed.object
    THEN Returned([critic_score |-> parsed.score,
                   critic_feedback |-> parsed.feedback])
    ELSE IF IsJsonNumber(clean) THEN Raised
    ELSE Returned(
           [critic_score |-> ExtractScoreFromText(ScanScore(Lower(raw))),
            critic_feedback |-> <<"Parsing failed. Raw response: ">>
                \o SubSeq(raw, 1, Min2(Len(raw), FeedbackLimit))])

\* The raw critic responses: up to three fragments one after the other,
\* alone or behind FeedbackLimit characters of filler.
Fragments ==
    { <<>>, <<"S", "c", "o", "r", "e">>, <<"r", "a", "t", "i", "n", "g">>,
      <<":", " ">>, <<"6">>, <<"1", "5">>, <<"8", ".", "5">>, <<"/", "1", "0">>,
      <<"6", "/", "1", "0">>, <<"x">> }

Filler == [i \in 1..FeedbackLimit |-> "x"]

\* No number of the text has more than one decimal.
OneDecimal(text) ==
    \A i \in 1..Len(text) :
        (text[i] = "." /\ i + 2 <= Len(text)) => text[i + 2] \notin Digits

RawResponses ==
    {t \in {p \o a \o b \o c : p \in {<<>>, Filler},
                               a \in Fragments, b \in Fragments, c \in Fragments} :
        OneDecimal(t)}

InitCritic ==
    /\ pc = "critic"
    /\ state = [InitialState(<<"q">>) EXCEPT
                   !.requirements = <<"a">>, !.research = <<"b">>,
                   !.architecture = <<"a">>, !.visualization = <<"b">>,
                   !.iteration_count = 4]
    /\ settings = DefaultSettings
    /\ steps = 4
    /\ trace = <<>>
    /\ invocations = 4
    /\ retries = 0
    /\ SingleRun
    /\ Direct

\* JSON objects as the critic is asked to answer, and the ways a model
\* wraps them: not at all, in a json fence, in a bare fence, with and
\* without line breaks and blanks around.
Payload(n, f) == ObjectOpen \o n \o ObjectMiddle \o f \o ObjectClose

ScoreLiterals ==
    { <<"0">>, <<"6">>, <<"8", ".", "5">>, <<"1", "0">>, <<"1", "2">>, <<"7">> }

FeedbackStrings ==
    { <<>>, <<"s", "o", "l", "i", "d">>, <<"7", "/", "1", "0">>,
      <<"S", "c", "o", "r", "e", ":", " ", "3">> }

Wrap(kind, p) ==
    CASE kind = "none"        -> p
      [] kind = "json"        -> JsonFence \o <<"\n">> \o p \o <<"\n">> \o Fence
      [] kind = "json padded" -> <<" ">> \o JsonFence \o p \o Fence \o <<"\n">>
      [] kind = "bare"        -> Fence \o <<"\n">> \o p \o <<"\n">> \o Fence
      [] kind = "bare tight"  -> Fence \o p \o Fence

WrapKinds == {"none", "json", "json padded", "bare", "bare tight"}

FencedResponses ==
    {Wrap(k, Payload(n, f)) : k \in WrapKinds, n \in ScoreLiterals,
                              f \in FeedbackStrings}

\* The critic node on one fenced or unfenced JSON object.
CriticOnFenced ==
    /\ pc = "critic"
    /\ trace = <<>>
    /\ \E raw \in FencedResponses :
         LET r == CriticProcessRaw(raw)
             upd == IF r.raised
                    THEN FailureUpdate("critic", state,
                                       <<"response could not be processed">>)
                    ELSE SuccessUpdate(state, r.update)
             new == Merge(state, upd)
         IN  /\ state' = new
             /\ trace' = <<[node |-> "critic", failed |-> IsFailure(upd),
                            called |-> TRUE, call_raised |-> FALSE,
                            count |-> new.iteration_count,
                            score |-> new.critic_score, raw |-> raw]>>
             /\ pc' = NextNode("critic", new, settings)
    /\ steps' = steps + 1
    /\ invocations' = invocations + 1
    /\ UNCHANGED <<settings, retries, concurrent, boundary>>

SpecFenced == InitCritic /\ [][CriticOnFenced]_vars

\* The critic node on one raw response that is no JSON object.
CriticOnRaw ==
    /\ pc = "critic"
    /\ trace = <<>>
    /\ \E raw \in RawResponses :
         LET r == CriticProcessRaw(raw)
             upd == IF r.raised
                    THEN FailureUpdate("critic", state,
                                       <<"response could not be processed">>)
                    ELSE SuccessUpdate(state, r.update)
             new == Merge(state, upd)
         IN  /\ state' = new
             /\ trace' = <<[node |-> "critic", failed |-> IsFailure(upd),
                            called |-> TRUE, call_raised |-> FALSE,
                            count |-> new.iteration_count,
                            score |-> new.critic_score, raw |-> raw]>>
             /\ pc' = NextNode("critic", new, settings)
    /\ steps' = steps + 1
    /\ invocations' = invocations + 1
    /\ UNCHANGED <<settings, retries, concurrent, boundary>>

SpecCritic == InitCritic /\ [][CriticOnRaw]_vars

\* --------------------------------------------------------------------
\* The meta-critic on the characters of its response.

\* The indicator words of _analyze_text_for_risk, in the order of the lists.
MajorIndicators ==
    << <<"h", "a", "l", "l", "u", "c", "i", "n", "a", "t", "i", "o", "n">>,
       <<"f", "a", "l", "s", "e">>,
       <<"i", "n", "c", "o", "r", "r", "e", "c", "t">>,
       <<"m", "i", "s", "l", "e", "a", "d", "i", "n", "g">>,
       <<"b", "i", "a", "s">> >>

ModerateIndicators ==
    << <<"c", "o", "n", "c", "e", "r", "n">>,
       <<"i", "s", "s", "u", "e">>,
       <<"p", "r", "o", "b", "l", "e", "m">>,
       <<"q", "u", "e", "s", "t", "i", "o", "n", "a", "b", "l", "e">>,
       <<"u", "n", "c", "l", "e", "a", "r">> >>

MinorIndicators ==
    << <<"m", "i", "n", "o", "r">>,
       <<"s", "m", "a", "l", "l">>,
       <<"t", "r", "i", "v", "i", "a", "l">>,
       <<"a", "c", "c", "e", "p", "t", "a", "b", "l", "e">> >>

RECURSIVE IndicatorCount(_, _)
\* sum(1 for word in words if word in text)
IndicatorCount(words, text) ==
    IF words = <<>> THEN 0
    ELSE (IF Contains(text, Head(words)) THEN 1 ELSE 0)
         + IndicatorCount(Tail(words), text)

\* Variant of RiskOfText: the words are looked up in the text as written.
RiskOfText_CaseSensitive(text) ==
    AnalyzeTextForRisk([major |-> IndicatorCount(MajorIndicators, text),
                        moderate |-> IndicatorCount(ModerateIndicators, text),
                        minor |-> IndicatorCount(MinorIndicators, text)])

\* _analyze_text_for_risk on a text, in hundredths.
RiskOfText(text) ==
    LET text_lower == Lower(text) IN
    AnalyzeTextForRisk([major |-> IndicatorCount(MajorIndicators, text_lower),
                        moderate |-> IndicatorCount(ModerateIndicators, text_lower),
                        minor |-> IndicatorCount(MinorIndicators, text_lower)])

\* float() of the literal text[i..g], in hundredths (the modelled texts
\* carry at most two decimals).
HundredthsValue(text, i, g) ==
    LET e == RunEnd(text, i, Digits) - 1 IN
    IF e >= g THEN IntValue(text, i, g) * 100
    ELSE IntValue(text, i, e) * 100 + DigitValue(text[e + 2]) * 10
         + (IF g >= e + 3 THEN DigitValue(text[e + 3]) ELSE 0)

\* process_response of the meta-critic on a raw text: the leftmost number
\* of the stripped text, clamped; without a number, the indicator words.
MetaProcessRaw(raw) ==
    LET text == Strip(raw)
        at == {i \in 1..Len(text) : text[i] \in Digits}
    IN  IF at # {}
        THEN LET i == CHOOSE k \in at : \A m \in at : k <= m
                 score == HundredthsValue(text, i, NumberEnd(text, i))
             IN  Returned([bias_score |-> Min2(Max2(score, 0), MaxBiasScore)])
        ELSE Returned([bias_score |-> RiskOfText(raw)])

\* The raw meta-critic responses: three fragments with blanks between.
MetaFragments ==
    { <<>>,
      <<"l", "o", "w">>,
      <<"b", "i", "a", "s">>,
      <<"B", "i", "a", "s", "e", "d">>,
      <<"F", "A", "L", "S", "E">>,
      <<"f", "a", "l", "s", "e", " ", "a", "n", "d", " ", "m", "i", "s", "l", "e", "a", "d", "i", "n", "g">>,
      <<"h", "a", "l", "l", "u", "c", "i", "n", "a", "t", "i", "o", "n">>,
      <<"i", "n", "c", "o", "r", "r", "e", "c", "t">>,
      <<"c", "o", "n", "c", "e", "r", "n">>,
      <<"I", "s", "s", "u", "e", "s">>,
      <<"u", "n", "c", "l", "e", "a", "r", " ", "p", "r", "o", "b", "l", "e", "m">>,
      <<"q", "u", "e", "s", "t", "i", "o", "n", "a", "b", "l", "e">>,
      <<"m", "i", "n", "o", "r">>,
      <<"S", "m", "a", "l", "l">>,
      <<"t", "r", "i", "v", "i", "a", "l">>,
      <<"a", "c", "c", "e", "p", "t", "a", "b", "l", "e">>,
      <<"0", ".", "2", "5">>,
      <<"3">>,
      <<"1", ".", "5">>,
      <<"0">>,
      <<"0", ".", "0", "5">>,
      <<"r", "i", "s", "k", ":", " ", "0", ".", "4">> }

MetaRawResponses ==
    {a \o <<" ">> \o b \o <<" ">> \o c :
        a \in MetaFragments, b \in MetaFragments, c \in MetaFragments}

InitMeta ==
    /\ pc = "meta_critic"
    /\ state = [InitialState(<<"q">>) EXCEPT
                   !.requirements = <<"a">>, !.research = <<"b">>,
                   !.architecture = <<"a">>, !.visualization = <<"b">>,
                   !.critic_score = 80, !.critic_feedback = <<"a">>,
                   !.iteration_count = 5]
    /\ settings = DefaultSettings
    /\ steps = 5
    /\ trace = <<>>
    /\ invocations = 5
    /\ retries = 0
    /\ SingleRun
    /\ Direct

\* The meta-critic node on one raw response.
MetaOnRaw ==
    /\ pc = "meta_critic"
    /\ trace = <<>>
    /\ \E raw \in MetaRawResponses :
         LET r == MetaProcessRaw(raw)
             upd == SuccessUpdate(state, r.update)
             new == Merge(state, upd)
         IN  /\ state' = new
             /\ trace' = <<[node |-> "meta_critic", failed |-> IsFailure(upd),
                            called |-> TRUE, call_raised |-> FALSE,
                            count |-> new.iteration_count,
                            score |-> new.critic_score, raw |-> raw]>>
             /\ pc' = NextNode("meta_critic", new, settings)
    /\ steps' = steps + 1
    /\ invocations' = invocations + 1
    /\ UNCHANGED <<settings, retries, concurrent, boundary>>

SpecMeta == InitMeta /\ [][MetaOnRaw]_vars

\* ------------------------------------------------- the request boundary
\* AnalyzeRequest.query: min_length and max_length
MinQueryLen == 10
MaxQueryLen == 5000

UnsafeKeywords ==
    { <<"s", "c", "r", "i", "p", "t">>, <<"e", "v", "a", "l">>,
      <<"e", "x", "e", "c">> }

\* Variant of ValidateQuery: the keywords are looked for in the query as
\* it was sent.
ValidateQuery_CaseSensitive(q) ==
    IF Len(q) < MinQueryLen \/ Len(q) > MaxQueryLen
    THEN [ok |-> FALSE, value |-> <<>>]
    ELSE IF Strip(q) = <<>> THEN [ok |-> FALSE, value |-> <<>>]
    ELSE IF \E k \in UnsafeKeywords : Contains(q, k)
    THEN [ok |-> FALSE, value |-> <<>>]
    ELSE [ok |-> TRUE, value |-> Strip(q)]

\* Validation of AnalyzeRequest: the length limits of the field, on the
\* query as sent, then validate_query; the value kept is stripped.
ValidateQuery(q) ==
    IF Len(q) < MinQueryLen \/ Len(q) > MaxQueryLen
    THEN [ok |-> FALSE, value |-> <<>>]
    ELSE IF Strip(q) = <<>> THEN [ok |-> FALSE, value |-> <<>>]
    ELSE IF \E k \in UnsafeKeywords : Contains(Lower(q), k)
    THEN [ok |-> FALSE, value |-> <<>>]
    ELSE [ok |-> TRUE, value |-> Strip(q)]

\* The field constraints of AnalyzeResponse on what the run left.
ResponseValid(s) ==
    /\ s.critic_score >= 0
    /\ s.critic_score <= MaxCriticScore
    /\ s.bias_score >= 0
    /\ s.bias_score <= MaxBiasScore
    /\ s.iteration_count >= 1

\* The AnalyzeResponse analyze_system returns.
AnalyzeResponse(s) ==
    [status |-> 200, final_markdown |-> s.final_markdown,
     critic_score |-> s.critic_score, bias_score |-> s.bias_score,
     iteration_count |-> s.iteration_count]

\* The ErrorResponse of an exception handler.
ErrorResponse(code) == [status |-> code]

Text(n, ch) == [i \in 1..n |-> ch]

\* Queries as clients send them.
RawQueries ==
    { <<>>, Text(12, " "), Text(9, "d"), Text(10, "d"),
      <<" ", " ">> \o Text(8, "d") \o <<" ", "\n">>,
      Text(MaxQueryLen, "d"), Text(MaxQueryLen + 1, "d"),
      Text(6, "d") \o <<"<", "S", "c", "R", "i", "P", "t", ">">>,
      <<"d", "e", "s", "c", "r", "i", "p", "t", "i", "o", "n">>,
      <<"E", "V", "A", "L", " ">> \o Text(6, "d"),
      Text(6, "d") \o <<" ", "e", "x", "e", "c">>,
      <<"e", "x", "e">> \o Text(8, "d") }

InitRequest ==
    /\ pc = "request"
    /\ request \in RawQueries
    /\ response = NoResponse
    /\ limiter = NoLimiter
    /\ state = InitialState(<<>>)
    /\ settings = DefaultSettings
    /\ steps = 0
    /\ trace = <<>>
    /\ invocations = 0
    /\ retries = 0
    /\ SingleRun

\* The body of the request is validated: it is refused with 422 by the
\* handler of RequestValidationError, or analyze_system starts and builds
\* initial_state from the validated query.
Receive ==
    /\ pc = "request"
    /\ LET v == ValidateQuery(request) IN
       IF v.ok
       THEN /\ state' = InitialState(v.value)
            /\ pc' = "planner"
            /\ UNCHANGED response
       ELSE /\ response' = ErrorResponse(422)
            /\ pc' = "responded"
            /\ UNCHANGED state
    /\ UNCHANGED <<request, limiter, settings, steps, trace, invocations,
                   retries, concurrent>>

\* workflow.invoke has returned: analyze_system builds the AnalyzeResponse,
\* or the construction is refused by the field constraints and the
\* except Exception clause answers 500.
Respond ==
    /\ pc = "END"
    /\ response' = IF ResponseValid(state) THEN AnalyzeResponse(state)
                   ELSE ErrorResponse(500)
    /\ pc' = "responded"
    /\ UNCHANGED <<request, limiter, state, settings, steps, trace,
                   invocations, retries, concurrent>>

\* workflow.invoke has raised: the except Exception clause answers 500.
RespondAborted ==
    /\ pc = "aborted"
    /\ response' = ErrorResponse(500)
    /\ pc' = "responded"
    /\ UNCHANGED <<request, limiter, state, settings, steps, trace,
                   invocations, retries, concurrent>>

NextRequest ==
    \/ Receive
    \/ Next
    \/ Respond
    \/ RespondAborted

SpecRequest == InitRequest /\ [][NextRequest]_vars

\* ---------------------------------------------------------- RateLimiter
\* The identifiers the limiter is called with, and the parameters it is
\* constructed with (max_requests, window_seconds).
Identifiers == {"a", "b"}
MaxRequestsValues == {1, 2}
WindowValues == {1, 2}

\* Variant of CheckRateLimit: the limit is refused only when passed.
CheckRateLimit_LimitExclusive(requests, identifier, now, max_requests, window_seconds) ==
    LET window_start == now - window_seconds
        kept == IF identifier \in DOMAIN requests
                THEN SelectSeq(requests[identifier],
                               LAMBDA req_time : req_time > window_start)
                ELSE <<>>
    IN  IF Len(kept) > max_requests
        THEN [allowed |-> FALSE, requests |-> (identifier :> kept) @@ requests]
        ELSE [allowed |-> TRUE,
              requests |-> (identifier :> Append(kept, now)) @@ requests]

\* RateLimiter.check_rate_limit on the dictionary self.requests at the
\* instant now: what it returns and the dictionary it leaves.
CheckRateLimit(requests, identifier, now, max_requests, window_seconds) ==
    LET window_start == now - window_seconds
        kept == IF identifier \in DOMAIN requests
                THEN SelectSeq(requests[identifier],
                               LAMBDA req_time : req_time > window_start)
                ELSE <<>>
    IN  IF Len(kept) >= max_requests
        THEN [allowed |-> FALSE, requests |-> (identifier :> kept) @@ requests]
        ELSE [allowed |-> TRUE,
              requests |-> (identifier :> Append(kept, now)) @@ requests]

\* RateLimiter(max_requests, window_seconds)
InitLimiter ==
    /\ pc = "END"
    /\ state = InitialState(<<>>)
    /\ settings = DefaultSettings
    /\ steps = 0
    /\ trace = <<>>
    /\ invocations = 0
    /\ retries = 0
    /\ SingleRun
    /\ request = <<>>
    /\ response = NoResponse
    /\ \E m \in MaxRequestsValues, w \in WindowValues :
         limiter = [now |-> 0, max_requests |-> m, window_seconds |-> w,
                    requests |-> <<>>,
                    alone |-> [i \in Identifiers |-> <<>>],
                    calls |-> <<>>]

\* datetime.utcnow() moves on between two calls.
ClockTick ==
    /\ limiter.now < MaxClock
    /\ limiter' = [limiter EXCEPT !.now = @ + 1]
    /\ UNCHANGED <<pc, state, settings, steps, trace, invocations, retries,
                   concurrent, request, response>>

\* One call of check_rate_limit.  alone[identifier] is the dictionary of
\* a limiter that receives the calls of this identifier only.
CheckRateLimitCall ==
    /\ Len(limiter.calls) < MaxCalls
    /\ \E identifier \in Identifiers :
         LET r == CheckRateLimit(limiter.requests, identifier, limiter.now,
                                 limiter.max_requests, limiter.window_seconds)
             a == CheckRateLimit(limiter.alone[identifier], identifier,
                                 limiter.now, limiter.max_requests,
                                 limiter.window_seconds)
         IN  limiter' = [limiter EXCEPT
                 !.requests = r.requests,
                 !.alone[identifier] = a.requests,
                 !.calls = Append(@, [identifier |-> identifier,
                                      at |-> limiter.now,
                                      allowed |-> r.allowed,
                                      allowed_alone |-> a.allowed])]
    /\ UNCHANGED <<pc, state, settings, steps, trace, invocations, retries,
                   concurrent, request, response>>

NextLimiter ==
    \/ ClockTick
    \/ CheckRateLimitCall

SpecLimiter == InitLimiter /\ [][NextLimiter]_vars

\* ------------------------------------------------------ concurrent runs
\* Several workflow.invoke calls under way in one process, each on the
\* initial_state built for it, next to callers of SecureLLMClient.invoke.
RunIds == {"r1", "r2"}
Callers == {"t1", "t2"}

\* Settings.rate_limit_per_minute (ge=1, default 60): the values modelled.
GateSizes == {1, 2}

ConcurrentSettings == [max_retries |-> 1, critic_threshold |-> 70]

\* The variables of the single run.
single == <<pc, state, settings, steps, trace, invocations, retries>>

\* What the generation call of a concurrent run does: it raises, or it
\* returns one fixed text of the stage's kind.
RunOutcomes(name) ==
    {o \in LLMOutcomes(name) :
        \/ o.raised
        \/ o.content = CASE name = "critic" -> CriticJson(TRUE, FALSE, 70, TRUE)
                          [] name = "meta_critic" -> MetaText(TRUE, 20, 0, 0, 1)
                          [] OTHER -> <<" ", "b", "\n">>}

NewRun ==
    [pc |-> "planner", state |-> InitialState(<<"q">>), steps |-> 0,
     in_call |-> FALSE]

\* Variant of StateView: the runs share one error list, the longest.
StateView_SharedLog(rs, r) ==
    LET q == CHOOSE q \in DOMAIN rs : \A o \in DOMAIN rs :
                 Len(rs[q].state.error_messages) >= Len(rs[o].state.error_messages)
    IN  [rs[r].state EXCEPT !.error_messages = rs[q].state.error_messages]

\* The state a node of run r is handed: the LabState that was built for
\* this run's workflow.invoke and that the runtime has threaded since.
StateView(rs, r) == rs[r].state

\* One node of a run that is alone, on the outcome of its generation call.
SoloStep(s, outcome, cfg) ==
    LET upd == IF s.pc = "finalize" THEN FinalizeOutput(s.state, FALSE)
               ELSE Execute(s.pc, s.state, outcome)
        new == Merge(s.state, upd)
    IN  [pc |-> NextNode(s.pc, new, cfg), state |-> new]

\* SecureLLMClient.invoke as its except clause classifies what
\* client.invoke did (the error text is lower-cased before the test).
ClientOutcomes == {"response", "Rate limit reached", "connection reset"}

InvokeResult(o) ==
    CASE o = "response"           -> "returned"
      [] o = "Rate limit reached" -> "RateLimitError"
      [] OTHER                    -> "LLMError"

\* async with self._rate_limiter: entering takes a permit ...
GateEnter(g) == [g EXCEPT !.value = @ - 1]

\* Variant of GateExit: the permit comes back only when the call returned.
GateExit_LeakOnRaise(g, result) ==
    IF result = "returned" THEN [g EXCEPT !.value = @ + 1] ELSE g

\* ... and leaving the block gives it back, however the block is left.
GateExit(g, result) == [g EXCEPT !.value = @ + 1]

InitConcurrent ==
    /\ pc = "planner"
    /\ state = InitialState(<<"q">>)
    /\ settings = ConcurrentSettings
    /\ steps = 0
    /\ trace = <<>>
    /\ invocations = 0
    /\ retries = 0
    /\ runs = [r \in RunIds |-> NewRun]
    /\ solo = [r \in RunIds |-> [pc |-> NewRun.pc, state |-> NewRun.state]]
    /\ gate \in {[size |-> n, value |-> n] : n \in GateSizes}
    /\ gated = [t \in Callers |-> "idle"]
    /\ Direct

\* execute of run r has validated its inputs and is inside
\* self.llm_client.client.invoke(messages).
RunCallBegins(r) ==
    /\ runs[r].pc \in AgentNames
    /\ ~runs[r].in_call
    /\ runs[r].steps < MaxSupersteps
    /\ ValidateInputs(runs[r].pc, StateView(runs, r)) = <<>>
    /\ runs' = [runs EXCEPT ![r].in_call = TRUE]
    /\ UNCHANGED <<solo, gate, gated, single, boundary>>

\* The node of run r returns on this outcome: its update is merged into
\* the run's state and the outgoing edge is followed.
RunNodeReturns(r, outcome) ==
    LET name == runs[r].pc
        upd == Execute(name, StateView(runs, r), outcome)
        new == Merge(runs[r].state, upd)
    IN  /\ runs' = [runs EXCEPT ![r] =
                      [pc |-> NextNode(name, new, settings), state |-> new,
                       steps |-> @.steps + 1, in_call |-> FALSE]]
        /\ solo' = [solo EXCEPT ![r] = SoloStep(@, outcome, settings)]
        /\ UNCHANGED <<gate, gated, single, boundary>>

\* The generation call of run r ends.
RunCallEnds(r) ==
    /\ runs[r].in_call
    /\ \E outcome \in RunOutcomes(runs[r].pc) : RunNodeReturns(r, outcome)

\* execute of run r raises in _validate_inputs: no call is made.
RunPreconditionFails(r) ==
    /\ runs[r].pc \in AgentNames
    /\ ~runs[r].in_call
    /\ runs[r].steps < MaxSupersteps
    /\ ValidateInputs(runs[r].pc, StateView(runs, r)) # <<>>
    /\ RunNodeReturns(r, [raised |-> FALSE, content |-> <<>>])

RunFinalize(r) ==
    /\ runs[r].pc = "finalize"
    /\ runs[r].steps < MaxSupersteps
    /\ LET new == Merge(runs[r].state,
                        FinalizeOutput(StateView(runs, r), FALSE))
       IN  runs' = [runs EXCEPT ![r] =
                      [pc |-> NextNode("finalize", new, settings),
                       state |-> new, steps |-> @.steps + 1,
                       in_call |-> FALSE]]
    /\ solo' = [solo EXCEPT ![r] = SoloStep(@, [raised |-> FALSE, content |-> <<>>], settings)]
    /\ UNCHANGED <<gate, gated, single, boundary>>

\* Run r has used up its step budget: its workflow.invoke raises.
RunAbort(r) ==
    /\ runs[r].pc \in Nodes
    /\ ~runs[r].in_call
    /\ runs[r].steps >= MaxSupersteps
    /\ runs' = [runs EXCEPT ![r].pc = "aborted"]
    /\ solo' = [solo EXCEPT ![r].pc = "aborted"]
    /\ UNCHANGED <<gate, gated, single, boundary>>

\* A caller of SecureLLMClient.invoke gets past async with (it waits while
\* no permit is free) and its client.invoke is under way.
InvokeEnter(t) ==
    /\ gated[t] # "calling"
    /\ gate.value > 0
    /\ gate' = GateEnter(gate)
    /\ gated' = [gated EXCEPT ![t] = "calling"]
    /\ UNCHANGED <<runs, solo, single, boundary>>

\* Its call ends: the response is returned, or RateLimitError or LLMError
\* is raised, through the end of the async with block.
InvokeExit(t) ==
    /\ gated[t] = "calling"
    /\ \E o \in ClientOutcomes :
         /\ gate' = GateExit(gate, InvokeResult(o))
         /\ gated' = [gated EXCEPT ![t] = InvokeResult(o)]
    /\ UNCHANGED <<runs, solo, single, boundary>>

NextConcurrent ==
    \/ \E r \in RunIds : RunCallBegins(r)
    \/ \E r \in RunIds : RunCallEnds(r)
    \/ \E r \in RunIds : RunPreconditionFails(r)
    \/ \E r \in RunIds : RunFinalize(r)
    \/ \E r \in RunIds : RunAbort(r)
    \/ \E t \in Callers : InvokeEnter(t)
    \/ \E t \in Callers : InvokeExit(t)

SpecConcurrent == InitConcurrent /\ [][NextConcurrent]_vars

TypeOK ==
    /\ pc \in Nodes \cup {"END", "aborted"}
    /\ steps \in 0..MaxSupersteps
    /\ steps = Len(trace)
    /\ state.iteration_count \in 0..MaxSupersteps
    /\ Len(state.error_messages) <= MaxSupersteps

\* ------------------------------------------------ reading the history
\* The last node invocation.
Last == trace[Len(trace)]

\* Positions of the invocations of a node.
VisitsOf(name) == {i \in 1..Len(trace) : trace[i].node = name}

\* The node that followed invocation i (the node about to run, for the last).
Successor(i) == IF i < Len(trace) THEN trace[i + 1].node ELSE pc

\* Position of the first pass through the critic (0: none yet).
FirstCritic ==
    IF VisitsOf("critic") = {} THEN 0
    ELSE CHOOSE i \in VisitsOf("critic") : \A j \in VisitsOf("critic") : i <= j

\* The fixed edges of build_graph, as a relation on nodes.
Edge(a, b) ==
    \/ a = "planner" /\ b = "researcher"
    \/ a = "researcher" /\ b = "architect"
    \/ a = "architect" /\ b = "visualizer"
    \/ a = "visualizer" /\ b = "critic"
    \/ a = "critic" /\ b \in {"researcher", "meta_critic"}
    \/ a = "meta_critic" /\ b = "finalize"
    \/ a = "finalize" /\ b = "END"

\* The nodes of the trace, in order.
NodesVisited == [i \in 1..Len(trace) |-> trace[i].node]

StraightRun ==
    <<"planner", "researcher", "architect", "visualizer", "critic",
      "meta_critic", "finalize">>

\* The fields a stage may write, error log and counter aside.
StageFields ==
    {"requirements", "research", "architecture", "visualization",
     "critic_score", "critic_feedback", "bias_score", "final_markdown"}

\* ------------------------------------------------------------------ C1
\* C1: every pipeline run reaches Done (finalize has run and the graph has
\* ended) after finitely many stage invocations, whatever stages fail; in
\* particular a run whose planner invocation failed reaches Done.  Stated
\* for that case, which the claim names, under FairSpec.
C1_EveryRunReachesDone ==
    (trace # <<>> /\ trace[1].node = "planner" /\ trace[1].failed)
        ~> (pc = "END")

\* ------------------------------------------------------------------ C2
\* C2: in any run the retry edge critic -> researcher is taken at most
\* max_retries times.
C2_RetryEdgeBounded == retries <= settings.max_retries

\* ------------------------------------------------------------------ C3
\* C3: in every reachable state iteration_count equals the number of agent
\* stage invocations attempted so far, successful or failed.
C3_CountEqualsInvocations == state.iteration_count = invocations

\* ------------------------------------------------------------------ C4
\* C4: after every pass through the critic the next node is researcher
\* exactly when iteration_count < max_retries and critic_score < threshold
\* (both as the critic left them), and meta_critic in every other case.
C4_RoutingDecision ==
    \A i \in VisitsOf("critic") :
        LET retry == /\ trace[i].count < settings.max_retries
                     /\ trace[i].score < settings.critic_threshold
        IN  Successor(i) \in Nodes =>
                /\ Successor(i) = "researcher" <=> retry
                /\ Successor(i) = "meta_critic" <=> ~retry

\* The critic wrote a score equal to the threshold while under the ceiling,
\* and the run proceeded to the meta-critic.
C4_Witness ==
    /\ trace # <<>>
    /\ Last.node = "critic"
    /\ ~Last.failed
    /\ settings.critic_threshold = 70
    /\ Last.score = settings.critic_threshold
    /\ Last.count < settings.max_retries
    /\ pc = "meta_critic"

\* ------------------------------------------------------------------ C5
\* C5: once a routing decision is taken with iteration_count >= max_retries,
\* that decision and every later routing decision of the run is proceed:
\* no pass through the critic from then on is followed by the researcher.
C5_CeilingIsFinal ==
    \A i \in VisitsOf("critic") :
        trace[i].count >= settings.max_retries =>
            \A j \in VisitsOf("critic") :
                j >= i => Successor(j) # "researcher"

\* The ceiling decided: the score was below the threshold and the run went
\* on to the meta-critic all the same, after at least one retry.
C5_Witness ==
    /\ trace # <<>>
    /\ Last.node = "critic"
    /\ Last.count >= settings.max_retries
    /\ Last.score < settings.critic_threshold
    /\ retries >= 1
    /\ pc = "meta_critic"

\* ------------------------------------------------------------------ C6
\* C6: if the score is >= threshold after the first pass through the critic,
\* the researcher is never invoked a second time in that run.
C6_NoRetryAfterGoodFirstScore ==
    (FirstCritic # 0 /\ trace[FirstCritic].score >= settings.critic_threshold)
        => /\ Cardinality(VisitsOf("researcher")) <= 1
           /\ pc # "researcher"
           /\ retries = 0

\* A finished run whose first critic pass scored at the threshold or above
\* while still under the ceiling (so that the score decided).
C6_Witness ==
    /\ pc = "END"
    /\ FirstCritic # 0
    /\ settings.critic_threshold = 70
    /\ trace[FirstCritic].score >= settings.critic_threshold
    /\ trace[FirstCritic].count < settings.max_retries

\* ------------------------------------------------------------------ C7
\* No generation call has raised, and the first pass through the critic
\* wrote a score >= threshold.
C7_Scenario ==
    /\ \A i \in 1..Len(trace) : ~trace[i].call_raised
    /\ FirstCritic # 0
    /\ ~trace[FirstCritic].failed
    /\ trace[FirstCritic].score >= settings.critic_threshold

\* C7: in a run where every generation call succeeds and the first critic
\* score is >= threshold, planner, researcher, architect, visualizer,
\* critic, meta_critic and finalize are each invoked exactly once in that
\* order, and at Done iteration_count is 6 and error_messages is empty.
C7_StraightRun ==
    C7_Scenario =>
        /\ IsPrefix(NodesVisited, StraightRun)
        /\ pc # "aborted"
        /\ pc = "END" => /\ NodesVisited = StraightRun
                         /\ state.iteration_count = 6
                         /\ state.error_messages = <<>>

C7_Witness ==
    /\ pc = "END"
    /\ C7_Scenario
    /\ settings.critic_threshold = 70
    /\ settings.max_retries = 3

\* ------------------------------------------------------------------ C8
\* C8: the nodes visited start at planner and follow the fixed edges; a
\* node's successor does not depend on whether it failed, the only choice
\* is the one after critic, nothing is visited after finalize, and a run
\* that ends has finalize as its last node.
C8_FixedEdges ==
    /\ trace = <<>> => pc = "planner"
    /\ trace # <<>> => trace[1].node = "planner"
    /\ \A i \in 1..Len(trace) :
           /\ Successor(i) # "aborted" => Edge(trace[i].node, Successor(i))
           /\ trace[i].node = "finalize" => i = Len(trace)
    /\ pc = "END" => (trace # <<>> /\ Last.node = "finalize")

\* A finished run in which some stage failed and the retry edge was taken.
C8_Witness ==
    /\ pc = "END"
    /\ retries >= 1
    /\ \E i \in 1..Len(trace) : trace[i].failed
    /\ \E i \in 1..Len(trace) : ~trace[i].failed /\ trace[i].node = "critic"

\* ------------------------------------------------------------------ C9
\* C9: an agent invocation that fails (its precondition, the generation
\* call, or the processing of the response) returns an update, so the run
\* goes on to a node; the update changes none of requirements, research,
\* architecture, visualization, critic_score, critic_feedback, bias_score,
\* final_markdown, and adds one entry to error_messages.
C9_FailureIsContained ==
    [][ (/\ Len(trace') = Len(trace) + 1
         /\ trace'[Len(trace')].node \in AgentNames)
        => LET v == trace'[Len(trace')] IN
           /\ (~v.called \/ v.call_raised) => v.failed
           /\ v.failed =>
                /\ \A f \in StageFields : state'[f] = state[f]
                /\ Len(state'.error_messages) = Len(state.error_messages) + 1
                /\ pc' \in Nodes ]_vars

\* The critic's response could not be processed (the call itself returned)
\* on a later pass, after an earlier pass had written a score.
C9_Witness ==
    /\ trace # <<>>
    /\ Last.node = "critic"
    /\ Last.failed
    /\ Last.called
    /\ ~Last.call_raised
    /\ state.critic_score # 0
    /\ state.visualization # <<>>

\* ----------------------------------------------------------------- C10
\* C10: error_messages is append-only: in every step the previous log is a
\* prefix of the new one.  Stated under SpecRenderFault, which includes
\* the except branch of the finalizer.
C10_ErrorLogAppendOnly ==
    [][IsPrefix(state.error_messages, state'.error_messages)]_vars

\* A finished run with failures before and after a retry and a render
\* failure at the end.
C10_Witness ==
    /\ pc = "END"
    /\ retries >= 1
    /\ Last.node = "finalize"
    /\ Last.failed
    /\ Len(state.error_messages) >= 3

\* ----------------------------------------------------------------- C11
\* The stage named by an error entry (its first part).
StageOf(entry) == entry[1]

\* The agent invocations of the trace that failed, in order.
FailedVisits ==
    SelectSeq(trace, LAMBDA v : v.node \in AgentNames
                                /\ (~v.called \/ v.call_raised \/ v.failed))

\* C11: every failed stage invocation appends exactly one entry to the end
\* of error_messages and that entry names the stage; a successful one
\* appends nothing: the log read in order names the failed invocations in
\* the order they occurred.
C11_LogIsFailureSequence ==
    /\ Len(state.error_messages) = Len(FailedVisits)
    /\ \A i \in 1..Len(FailedVisits) :
           StageOf(state.error_messages[i]) = FailedVisits[i].node

\* Two different stages have failed, with a successful stage before them.
C11_Witness ==
    /\ Len(state.error_messages) >= 2
    /\ StageOf(state.error_messages[1]) # StageOf(state.error_messages[2])
    /\ trace[1].node = "planner"
    /\ ~trace[1].failed
    /\ \E i \in 1..Len(trace) : trace[i].call_raised

\* ----------------------------------------------------------------- C12
\* C12: in every reachable state final_markdown is non-empty if and only if
\* the finalize node has already run.
C12_FinalOutputIffFinalized ==
    (state.final_markdown # <<>>) <=> (VisitsOf("finalize") # {})

\* ----------------------------------------------------------------- C13
\* The fields each node owns.
OwnedFields(node) ==
    CASE node = "planner"     -> {"requirements"}
      [] node = "researcher"  -> {"research"}
      [] node = "architect"   -> {"architecture"}
      [] node = "visualizer"  -> {"visualization"}
      [] node = "critic"      -> {"critic_score", "critic_feedback"}
      [] node = "meta_critic" -> {"bias_score"}
      [] node = "finalize"    -> {"final_markdown"}

\* C13: a node invocation changes only the fields its node owns, plus
\* iteration_count and error_messages; every other field, user_query in
\* particular, is left as it was.
C13_OnlyOwnedFieldsChange ==
    [][ Len(trace') = Len(trace) + 1
        => LET v == trace'[Len(trace')] IN
           \A f \in DOMAIN state :
               f \notin OwnedFields(v.node) \cup {"iteration_count", "error_messages"}
                   => state'[f] = state[f] ]_vars

\* The visualizer has just written its field on a retry pass, while the
\* other stages' fields hold values.
C13_Witness ==
    /\ trace # <<>>
    /\ Last.node = "visualizer"
    /\ ~Last.failed
    /\ retries >= 1
    /\ state.visualization # <<>>
    /\ state.architecture # <<>>
    /\ state.architecture # state.visualization
    /\ state.critic_score # 0

\* ----------------------------------------------------------------- C16
\* C16: at Done iteration_count is at most max_retries * 4 + 2 (4 nodes in
\* the researcher..critic segment, plus planner and meta_critic).
C16_CountBoundAtDone ==
    pc = "END" => state.iteration_count <= settings.max_retries * 4 + 2

\* A finished run that retried and counted past max_retries.
C16_Witness ==
    /\ pc = "END"
    /\ retries >= 1
    /\ state.iteration_count > settings.max_retries + 2

\* ----------------------------------------------------------------- C17
\* C17: iteration_count starts at 0 and no step of a stage, of the router
\* or of the finalizer decreases or resets it.
C17_CountMonotonic ==
    /\ state.iteration_count = 0
    /\ [][state'.iteration_count >= state.iteration_count]_vars

\* A stage has failed after the counter left 0, and the run finished.
C17_Witness ==
    /\ pc = "END"
    /\ state.iteration_count >= 2
    /\ \E i \in 2..Len(trace) : trace[i].failed /\ trace[i - 1].count >= 1

\* ----------------------------------------------------------------- C14
\* A text that is empty or made of whitespace only.
Blank(t) == \A i \in 1..Len(t) : t[i] \in Whitespace

\* Some required field of the agent is missing, empty or whitespace-only.
AnyRequiredBlank(name, s) ==
    \E i \in 1..Len(RequiredFields(name)) : Blank(s[RequiredFields(name)[i]])

\* Some required field of the agent is longer than validate_input accepts.
AnyRequiredTooLong(name, s) ==
    \E i \in 1..Len(RequiredFields(name)) :
        Len(s[RequiredFields(name)[i]]) > MaxInputLen

\* The generation calls made by an invocation.
CallsMade(v) == IF v.called THEN 1 ELSE 0

\* C14 as claimed: a stage invocation makes no generation call when any of
\* its required fields is missing, empty or whitespace-only (it fails
\* first), and exactly one generation call otherwise.
C14_CallIffNoBlankField ==
    [][ (Len(trace') = Len(trace) + 1 /\ trace'[Len(trace')].node \in AgentNames)
        => LET v == trace'[Len(trace')] IN
           IF AnyRequiredBlank(v.node, state)
           THEN CallsMade(v) = 0 /\ v.failed
           ELSE CallsMade(v) = 1 ]_vars

\* C14 as amended: no generation call (and a failure) when any required
\* field is missing, empty, whitespace-only or longer than 50000
\* characters; exactly one generation call otherwise.
C14_CallIffFieldsValid ==
    [][ (Len(trace') = Len(trace) + 1 /\ trace'[Len(trace')].node \in AgentNames)
        => LET v == trace'[Len(trace')] IN
           IF AnyRequiredBlank(v.node, state) \/ AnyRequiredTooLong(v.node, state)
           THEN CallsMade(v) = 0 /\ v.failed
           ELSE CallsMade(v) = 1 ]_vars

\* The architect was called with research present and requirements
\* whitespace-only: it failed without a generation call.
C14_Witness ==
    /\ trace # <<>>
    /\ Last.node = "architect"
    /\ state.research = <<"a">>
    /\ state.requirements = <<" ">>
    /\ ~Last.called
    /\ Last.failed
    /\ StageOf(state.error_messages[1]) = "architect"

\* ----------------------------------------------------------------- C15
\* Whether the rendered document holds the section with this heading.
HasSection(heading) ==
    \E i \in 1..Len(state.final_markdown) : state.final_markdown[i] = heading

\* C15: in a run where the visualizer is invoked with architecture empty
\* (in a run of the graph: it made no generation call), the visualizer
\* fails on its precondition, and at Done error_messages is non-empty and
\* final_markdown holds neither the Visualization nor the Architecture
\* section.
C15_EmptyArchitectureOmitsSections ==
    \A i \in VisitsOf("visualizer") :
        ~trace[i].called =>
            /\ trace[i].failed
            /\ pc = "END" =>
                 /\ state.error_messages # <<>>
                 /\ ~HasSection("# Visualization\n")
                 /\ ~HasSection("# Architecture Design\n")

\* ----------------------------------------------------------------- C18
\* The generation calls under way: those of the runs' stages and those
\* made through SecureLLMClient.invoke.
InFlight ==
    Cardinality({r \in RunIds : runs[r].in_call})
    + Cardinality({t \in Callers : gated[t] = "calling"})

\* C18: with several runs under way, the generation calls in flight, over
\* all runs and stages, never exceed the gate size rate_limit_per_minute.
C18_InFlightWithinGate == InFlight <= gate.size

\* ----------------------------------------------------------------- C19
\* C19: every permit taken by SecureLLMClient.invoke comes back when the
\* call ends, returned or raised: the free permits plus the gated calls
\* under way always make the gate size, so with no gated call under way
\* the gate holds all its permits.
C19_PermitsConserved ==
    /\ gate.value + Cardinality({t \in Callers : gated[t] = "calling"}) = gate.size
    /\ (\A t \in Callers : gated[t] # "calling") => gate.value = gate.size

\* One gated call has raised RateLimitError, another LLMError, none is
\* under way, and the gate of size one has its permit.
C19_Witness ==
    /\ gated["t1"] = "RateLimitError"
    /\ gated["t2"] = "LLMError"
    /\ gate.size = 1
    /\ gate.value = 1

RECURSIVE SplitBy(_, _)
\* The parts of a rendered document between occurrences of the delimiter.
SplitBy(md, delim) ==
    IF \A i \in 1..Len(md) : md[i] # delim THEN <<md>>
    ELSE LET k == CHOOSE i \in 1..Len(md) :
                     md[i] = delim /\ \A j \in 1..(i - 1) : md[j] # delim
         IN  <<SubSeq(md, 1, k - 1)>> \o SplitBy(SubSeq(md, k + 1, Len(md)), delim)

\* The text sections of final_markdown: its parts other than Evaluation.
TextParts ==
    SelectSeq(SplitBy(state.final_markdown, Delimiter),
              LAMBDA part : part # <<>> /\ part[1] # "# Evaluation\n")

\* The four text fields with their headings, in the order of the claim.
FieldHeadings ==
    << <<"requirements", "# Requirements\n">>,
       <<"research", "# Research Notes\n">>,
       <<"architecture", "# Architecture Design\n">>,
       <<"visualization", "# Visualization\n">> >>

\* C23: the finalizer's output holds the section of a text field iff the
\* field is non-empty at finalize time, the sections stand in the order
\* requirements, research, architecture, visualization, and they are
\* joined by the fixed delimiter (Evaluation, if any, comes last).
C23_SectionsIffNonEmptyInOrder ==
    pc = "END" =>
        LET present == SelectSeq(FieldHeadings, LAMBDA fh : state[fh[1]] # <<>>)
            parts == SplitBy(state.final_markdown, Delimiter)
        IN  /\ Len(TextParts) = Len(present)
            /\ \A i \in 1..Len(present) :
                   TextParts[i] = <<present[i][2]>> \o state[present[i][1]]
            /\ \A i \in 1..(Len(parts) - 1) :
                   parts[i] # <<>> /\ parts[i][1] # "# Evaluation\n"

\* A finished run that rendered requirements and research, separated by
\* the delimiter, and no architecture.
C23_Witness ==
    /\ pc = "END"
    /\ state.requirements # <<>>
    /\ state.research # <<>>
    /\ state.architecture = <<>>
    /\ Len(TextParts) = 2
    /\ state.requirements # state.research

\* ----------------------------------------------------------------- C24
\* Whether final_markdown holds this label.
HasLabel(label) ==
    \E i \in 1..Len(state.final_markdown) : state.final_markdown[i] = label

\* The node has returned successfully at least once in the run.
HasWritten(name) == \E i \in VisitsOf(name) : ~trace[i].failed

\* C24: when the critic or the meta-critic has written its value during
\* the run, the finalizer's output has an Evaluation section reporting each
\* written value: score and feedback when the critic wrote, the risk score
\* when the meta-critic wrote, a written 0 included.
C24_EvaluationReportsWritten ==
    pc = "END" =>
        /\ (HasWritten("critic") \/ HasWritten("meta_critic"))
               => HasLabel("# Evaluation\n")
        /\ HasWritten("critic")
               => HasLabel("**Score:** ") /\ HasLabel("**Feedback:** ")
        /\ HasWritten("meta_critic") => HasLabel("**Bias Risk:** ")

\* ----------------------------------------------------------------- C25
\* C25: the finalizer changes no field other than final_markdown, and
\* applied to the state that holds its own output it yields the same
\* final_markdown again.
C25_RenderIdempotent ==
    [][ (Len(trace') = Len(trace) + 1 /\ trace'[Len(trace')].node = "finalize")
        => /\ \A f \in DOMAIN state :
                  f # "final_markdown" => state'[f] = state[f]
           /\ (trace # <<>> /\ Last.node = "finalize")
                  => state'.final_markdown = state.final_markdown ]_vars

\* The finalizer has been applied twice to a state with something to render.
C25_Witness ==
    /\ Len(trace) = 2
    /\ trace[1].node = "finalize"
    /\ trace[2].node = "finalize"
    /\ state.final_markdown # <<>>
    /\ state.requirements # <<>>

\* ----------------------------------------------------------------- C26
\* C26: the finalizer always sets final_markdown; when rendering throws it
\* becomes the fixed fallback message, exactly one entry is appended to
\* the existing error_messages, and the run still ends at END.
C26_RenderFailureFallback ==
    [][ (Len(trace') = Len(trace) + 1 /\ trace'[Len(trace')].node = "finalize")
        => /\ pc' = "END"
           /\ trace'[Len(trace')].failed
                => /\ state'.final_markdown = <<"Error generating final output">>
                   /\ Len(state'.error_messages) = Len(state.error_messages) + 1
                   /\ SubSeq(state'.error_messages, 1, Len(state.error_messages))
                          = state.error_messages
           /\ ~trace'[Len(trace')].failed
                => /\ state'.final_markdown # <<"Error generating final output">>
                   /\ state'.error_messages = state.error_messages ]_vars

\* A run with earlier failures whose rendering threw: it is at END with
\* the fallback message and the render failure last in the log.
C26_Witness ==
    /\ pc = "END"
    /\ Last.node = "finalize"
    /\ Last.failed
    /\ state.final_markdown = <<"Error generating final output">>
    /\ Len(state.error_messages) >= 2
    /\ state.requirements # <<>>

\* ----------------------------------------------------------------- C27
\* C27: the planner is invoked exactly once per run, first; a retry
\* re-enters at researcher, and requirements keeps the value the planner's
\* invocation left across all later steps.
C27_PlannerOnce ==
    [][ /\ Cardinality({i \in 1..Len(trace') : trace'[i].node = "planner"}) = 1
        /\ trace'[1].node = "planner"
        /\ trace # <<>> => state'.requirements = state.requirements
        /\ (pc = "critic" /\ pc' # "critic") => pc' \in {"researcher", "meta_critic", "aborted"} ]_vars

\* A run that has retried twice, is past the researcher again, and still
\* holds the planner's requirements.
C27_Witness ==
    /\ retries >= 2
    /\ state.requirements # <<>>
    /\ Cardinality(VisitsOf("planner")) = 1
    /\ Last.node = "researcher"

\* ----------------------------------------------------------------- C28
\* C28: in every reachable state critic_score lies in [0,10], whatever
\* the critic's response, on the JSON path and on the fallback path.
C28_ScoreInRange == state.critic_score \in 0..MaxCriticScore

\* ----------------------------------------------------------------- C29
\* C29: in every reachable state bias_score lies in [0,1], whatever the
\* meta-critic's response: a number of any size, no number, any mix of
\* risk keywords.
C29_RiskInRange == state.bias_score \in 0..MaxBiasScore

\* The meta-critic has just written the upper end of the range.
C29_Witness ==
    /\ trace # <<>>
    /\ Last.node = "meta_critic"
    /\ ~Last.failed
    /\ state.bias_score = MaxBiasScore

\* ----------------------------------------------------------------- C30
\* In text: the word at i, then only colons and whitespace up to j, and a
\* digit at j.
KeywordThenNumber(word, text, i, j) ==
    /\ MatchesAt(word, text, i)
    /\ j >= i + Len(word)
    /\ j <= Len(text)
    /\ text[j] \in Digits
    /\ \A k \in (i + Len(word))..(j - 1) : text[k] \in {":", " ", "\n"}

\* In text: a number literal from i to g, then only slashes and
\* whitespace, then "10".
NumberThenTen(text, i, g) ==
    /\ text[i] \in Digits
    /\ text[g] \in Digits
    /\ \A k \in i..g : text[k] \in Digits \cup {"."}
    /\ Cardinality({k \in i..g : text[k] = "."}) <= 1
    /\ \E k \in (g + 1)..Len(text) :
         /\ MatchesAt(<<"1", "0">>, text, k)
         /\ \A m \in (g + 1)..(k - 1) : text[m] \in {"/", " ", "\n"}

\* The number the claim's rule reads from a lowercased text, in tenths, or
\* -1 when none of the three patterns matches.
ClaimedNumber(text) ==
    LET n == Len(text)
        kw(word) == {i \in 1..n :
                        /\ MatchesAt(word, text, i)
                        /\ \E j \in (i + Len(word))..n :
                               KeywordThenNumber(word, text, i, j)}
        first(is) == CHOOSE i \in is : \A o \in is : i <= o
        read(word, i) ==
            LET j == CHOOSE j \in (i + Len(word))..n :
                         KeywordThenNumber(word, text, i, j)
            IN  NumberValue(text, j, NumberEnd(text, j))
        ten == {i \in 1..n :
                   /\ text[i] \in Digits
                   /\ \E g \in i..n : NumberThenTen(text, i, g)}
        tenEnd(i) == CHOOSE g \in i..n :
                        /\ NumberThenTen(text, i, g)
                        /\ \A o \in (g + 1)..n : ~NumberThenTen(text, i, o)
        score == <<"s", "c", "o", "r", "e">>
        rating == <<"r", "a", "t", "i", "n", "g">>
    IN  IF kw(score) # {} THEN read(score, first(kw(score)))
        ELSE IF ten # {} THEN NumberValue(text, first(ten), tenEnd(first(ten)))
        ELSE IF kw(rating) # {} THEN read(rating, first(kw(rating)))
        ELSE -1

\* C30: when the critic's response is not valid JSON, the score is the
\* number of the first of the patterns 'score: N', 'N/10', 'rating: N', in
\* that order over the lowercased text, that matches, clamped into [0,10],
\* and 5.0 when none matches; the feedback is the parse-failure annotation
\* followed by at most the first 500 characters of the raw response.
C30_FallbackScoreAndFeedback ==
    (trace # <<>> /\ ~Last.failed) =>
        LET raw == Last.raw
            n == ClaimedNumber(Lower(raw))
            kept == IF Len(raw) <= 500 THEN Len(raw) ELSE 500
        IN  /\ state.critic_score =
                   IF n = -1 THEN 50
                   ELSE IF n > 100 THEN 100 ELSE IF n < 0 THEN 0 ELSE n
            /\ Len(state.critic_feedback) = kept + 1
            /\ state.critic_feedback[1] = "Parsing failed. Raw response: "
            /\ \A k \in 1..kept : state.critic_feedback[k + 1] = raw[k]

\* A response longer than 500 characters in which the N/10 pattern stands
\* before 'Score' with a larger number: the score pattern wins and is
\* clamped, and the feedback keeps 500 characters.
C30_Witness ==
    /\ trace # <<>>
    /\ ~Last.failed
    /\ Last.raw = Filler \o <<"6", "/", "1", "0">> \o <<"S", "c", "o", "r", "e">> \o <<"1", "5">>
    /\ state.critic_score = 100
    /\ Len(state.critic_feedback) = 501

\* ----------------------------------------------------------------- C21
\* C21: the result returned for a completed run holds the accumulated
\* error_messages with the partial artifact: when a stage failed during
\* the run, the response of the request boundary carries those entries.
C21_ResponseCarriesErrors ==
    (pc = "responded" /\ trace # <<>> /\ Last.node = "finalize"
     /\ state.error_messages # <<>>)
        => /\ "error_messages" \in DOMAIN response
           /\ response.error_messages = state.error_messages

\* ----------------------------------------------------------------- C22
\* The query is one the claim says is refused.
Refusable(q) ==
    \/ \A i \in 1..Len(q) : q[i] \in {" ", "\n"}
    \/ Len(q) < 10
    \/ Len(q) > 5000
    \/ \E w \in UnsafeKeywords : \E i \in 1..Len(q) :
         /\ i + Len(w) - 1 <= Len(q)
         /\ \A k \in 1..Len(w) : LowerChar(q[i + k - 1]) = w[k]

\* C22: a request whose query is empty or whitespace-only, shorter than
\* 10 or longer than 5000 characters, or holds 'script', 'eval' or 'exec'
\* in any letter case is answered with status 422, and no pipeline stage
\* is invoked for it.
C22_BadQueryRefused ==
    [][ /\ (pc = "request" /\ Refusable(request))
            => /\ response'.status = 422
               /\ pc' = "responded"
               /\ trace' = <<>>
               /\ invocations' = 0
        /\ (pc = "responded" /\ response.status = 422)
            => trace' = <<>> /\ invocations' = 0 ]_vars

\* A query of the right length with 'ScRiPt' in mixed case has been
\* answered 422 before any stage ran.
C22_Witness ==
    /\ pc = "responded"
    /\ response.status = 422
    /\ Len(request) >= 10
    /\ Len(request) <= 5000
    /\ \E i \in 1..Len(request) : request[i] = "R"
    /\ trace = <<>>

\* ----------------------------------------------------------------- C31
\* C31: for every JSON object with a numeric score and a string feedback,
\* the critic reads the object wrapped in a fenced code block (json tag or
\* bare fence, leading and trailing) to the same score and feedback as the
\* object alone: the score and the feedback that stand in the object.
C31_FencedParsesAsUnfenced ==
    \A k \in WrapKinds, n \in ScoreLiterals, f \in FeedbackStrings :
        (trace # <<>> /\ Last.raw = Wrap(k, Payload(n, f)))
            => /\ ~Last.failed
               /\ state.critic_score = NumberValue(n, 1, Len(n))
               /\ state.critic_feedback = f

\* ----------------------------------------------------------------- C32
\* The numbers the responses are written with, and their values in
\* hundredths.
MetaLiterals ==
    { [lit |-> <<"0", ".", "2", "5">>, value |-> 25],
      [lit |-> <<"3">>, value |-> 300],
      [lit |-> <<"1", ".", "5">>, value |-> 150],
      [lit |-> <<"0">>, value |-> 0],
      [lit |-> <<"0", ".", "0", "5">>, value |-> 5],
      [lit |-> <<"0", ".", "4">>, value |-> 40] }

\* The literal is the first number of the text: it stands where the first
\* digit of the text is, and no digit or fraction continues it.
FirstNumberIs(text, l) ==
    \E i \in 1..Len(text) :
        /\ \A k \in 1..(i - 1) : text[k] \notin Digits
        /\ MatchesAt(l, text, i)
        /\ LET e == i + Len(l) IN
             /\ ~(e <= Len(text) /\ text[e] \in Digits)
             /\ ~(e + 1 <= Len(text) /\ text[e] = "." /\ text[e + 1] \in Digits
                   /\ \A k \in 1..Len(l) : l[k] # ".")

\* The number of distinct words of a tier that occur in the text,
\* whatever the case of its letters.
Hits(tier, text) ==
    Cardinality({k \in 1..Len(tier) :
        \E i \in 1..Len(text) :
            /\ i + Len(tier[k]) - 1 <= Len(text)
            /\ \A j \in 1..Len(tier[k]) : LowerChar(text[i + j - 1]) = tier[k][j]})

\* C32: when the meta-critic's response contains no number, the risk is
\* min(0.7 + 0.1 x major hits, 1.0) if a major word occurs, else
\* min(0.3 + 0.1 x moderate hits, 0.6) if a moderate word occurs, else
\* min(0.1 + 0.05 x minor hits, 0.3) if a minor word occurs, else 0.2
\* (hits: the distinct words of the tier in the text); when it contains a
\* number, the risk is the first number clamped into [0, 1].
C32_RiskFromNumberOrWords ==
    (trace # <<>> /\ Last.node = "meta_critic" /\ ~Last.failed
        /\ "raw" \in DOMAIN Last) =>
        LET raw == Last.raw
            major == Hits(MajorIndicators, raw)
            moderate == Hits(ModerateIndicators, raw)
            minor == Hits(MinorIndicators, raw)
        IN  IF \E i \in 1..Len(raw) : raw[i] \in Digits
            THEN \E l \in MetaLiterals :
                    /\ FirstNumberIs(raw, l.lit)
                    /\ state.bias_score = Min2(Max2(l.value, 0), 100)
            ELSE state.bias_score =
                    IF major > 0 THEN Min2(70 + 10 * major, 100)
                    ELSE IF moderate > 0 THEN Min2(30 + 10 * moderate, 60)
                    ELSE IF minor > 0 THEN Min2(10 + 5 * minor, 30)
                    ELSE 20

\* A response without a number whose major words pass the cap has been
\* scored.
C32_Witness ==
    /\ trace # <<>> /\ Last.node = "meta_critic" /\ "raw" \in DOMAIN Last
    /\ \A i \in 1..Len(Last.raw) : Last.raw[i] \notin Digits
    /\ Hits(MajorIndicators, Last.raw) = 4
    /\ state.bias_score = 100

\* ----------------------------------------------------------------- C33
\* The agent invocations of the trace that succeeded, in order.
SucceededVisits ==
    SelectSeq(trace, LAMBDA v : v.node \in AgentNames /\ ~v.failed)

\* The agent invocations of the trace that failed: the precondition did
\* not hold, the call raised, or the response could not be processed.
FailedCount ==
    Cardinality({i \in 1..Len(trace) :
        trace[i].node \in AgentNames /\ trace[i].failed})

\* The passes through finalize whose rendering raised.
RenderFailures ==
    Cardinality({i \in 1..Len(trace) :
        trace[i].node = "finalize" /\ trace[i].failed})

\* C33: in every reachable state iteration_count is the number of
\* successful agent stage invocations so far and the length of the error
\* log is the number of failed ones (the entries of failed renderings set
\* aside), so that the two add up to the number of agent stage
\* invocations attempted.
C33_CountsPartitionInvocations ==
    /\ state.iteration_count = Len(SucceededVisits)
    /\ Len(state.error_messages) - RenderFailures = FailedCount
    /\ state.iteration_count + Len(state.error_messages) - RenderFailures
           = invocations

\* Stages have succeeded and failed, and the rendering has raised.
C33_Witness ==
    /\ pc = "END"
    /\ RenderFailures = 1
    /\ FailedCount >= 2
    /\ state.iteration_count >= 2

\* ----------------------------------------------------------------- C34
\* The first pass through planner, researcher, architect, visualizer and
\* critic has been made and none of the five failed.
FirstPassSucceeded ==
    /\ Len(trace) >= 5
    /\ \A i \in 1..5 : trace[i].node \in AgentNames /\ ~trace[i].failed

\* C34: in a run where planner, researcher, architect, visualizer and
\* critic all succeed on the first pass, iteration_count is 5 when the
\* router is first consulted, so for every max_retries <= 5 the decision is
\* to proceed and the researcher is never invoked again, even when the
\* score is below the threshold.
C34_FirstPassSuccessNeverRetries ==
    FirstPassSucceeded =>
        /\ trace[5].node = "critic"
        /\ trace[5].count = 5
        /\ settings.max_retries <= 5 =>
               /\ Successor(5) = "meta_critic"
               /\ VisitsOf("researcher") = {2}
               /\ retries = 0

\* A finished run under the ceiling 5 whose first pass succeeded with a
\* score below the threshold.
C34_Witness ==
    /\ pc = "END"
    /\ FirstPassSucceeded
    /\ settings.max_retries = 5
    /\ trace[5].score < settings.critic_threshold

\* ----------------------------------------------------------------- C35
\* The planner has succeeded and left non-empty requirements.
PlannerDelivered ==
    /\ trace # <<>>
    /\ trace[1].node = "planner"
    /\ ~trace[1].failed
    /\ state.requirements # <<>>

\* The researcher has not failed on every pass: one of its invocations
\* has succeeded.
ResearcherSucceeded ==
    \E i \in VisitsOf("researcher") : ~trace[i].failed

\* C35: if the planner succeeds with non-empty requirements and the
\* researcher does not fail forever, the run eventually reaches Done.  An
\* aborted run never reaches Done, so a run in which the planner has
\* delivered requirements and the researcher has succeeded is not aborted.
C35_DeliveredRunReachesDone ==
    (PlannerDelivered /\ ResearcherSucceeded) => pc # "aborted"

\* ----------------------------------------------------------------- C36
\* C36: with the default configuration (max_retries 3, threshold 7.0),
\* whenever the finalize stage runs, requirements is non-empty and
\* iteration_count is at least 3; hence no completed run returns
\* iteration_count 0 or an empty final_markdown.
C36_FinalizeNeedsProgress ==
    /\ settings = DefaultSettings
    /\ (pc = "finalize" \/ VisitsOf("finalize") # {})
          => /\ state.requirements # <<>>
             /\ state.iteration_count >= 3
    /\ pc = "END"
          => /\ state.iteration_count # 0
             /\ state.final_markdown # <<>>

\* A completed run that reached the ceiling exactly, with failures and a
\* score below the threshold.
C36_Witness ==
    /\ pc = "END"
    /\ VisitsOf("finalize") # {}
    /\ state.iteration_count = 3
    /\ state.critic_score < settings.critic_threshold
    /\ state.error_messages # <<>>
    /\ retries >= 1

\* ----------------------------------------------------------------- C37
\* The calls for the identifier that returned True, as positions of the
\* history.
Allowed(identifier) ==
    {k \in 1..Len(limiter.calls) :
        limiter.calls[k].identifier = identifier /\ limiter.calls[k].allowed}

\* The timestamps of the calls for the identifier that returned True, in
\* order, and the instant of the latest call for it.
AllowedTimes(identifier) ==
    LET own == SelectSeq(limiter.calls,
                         LAMBDA c : c.identifier = identifier /\ c.allowed)
    IN  [k \in 1..Len(own) |-> own[k].at]

LatestCall(identifier) ==
    LET ks == {k \in 1..Len(limiter.calls) :
                  limiter.calls[k].identifier = identifier}
    IN  limiter.calls[CHOOSE k \in ks : \A o \in ks : o <= k].at

\* C37: for every identifier and every instant t, the calls that
\* returned True with a timestamp in the window (t - window_seconds, t]
\* never exceed max_requests; a call that returns False records no
\* timestamp (the timestamps held are those of the allowed calls still in
\* the window of the identifier's latest call); and the calls for one
\* identifier never change the outcome for another: each call returns
\* what it returns from a limiter that saw this identifier's calls only.
C37_WindowedLimitPerIdentifier ==
    /\ \A identifier \in Identifiers :
         \A t \in 0..(MaxClock + limiter.window_seconds) :
            Cardinality({k \in Allowed(identifier) :
                /\ limiter.calls[k].at > t - limiter.window_seconds
                /\ limiter.calls[k].at <= t}) <= limiter.max_requests
    /\ \A identifier \in DOMAIN limiter.requests :
         limiter.requests[identifier] =
             SelectSeq(AllowedTimes(identifier),
                       LAMBDA at : at > LatestCall(identifier)
                                        - limiter.window_seconds)
    /\ \A k \in 1..Len(limiter.calls) :
         limiter.calls[k].allowed = limiter.calls[k].allowed_alone

\* Under max_requests 2 one identifier was allowed twice and then
\* refused at the same instant, the other was allowed after that, and the
\* first was allowed again once its window had passed.
C37_Witness ==
    /\ limiter.max_requests = 2
    /\ Len(limiter.calls) = 5
    /\ limiter.calls[1].identifier = "a" /\ limiter.calls[1].allowed
    /\ limiter.calls[2].identifier = "a" /\ limiter.calls[2].allowed
    /\ limiter.calls[3].identifier = "a" /\ ~limiter.calls[3].allowed
    /\ limiter.calls[3].at = limiter.calls[1].at
    /\ limiter.calls[4].identifier = "b" /\ limiter.calls[4].allowed
    /\ limiter.calls[5].identifier = "a" /\ limiter.calls[5].allowed

====
